---- MODULE Spec2Model ----
(***************************************************************************)
(* Model of the ExpenseTracker back end: the record listing               *)
(* (getAllRecords) and the summary analytics (getMonthlySummary,          *)
(* getRecentAverage, getTop5Expenses) over a store of records in two      *)
(* currencies.                                                             *)
(*                                                                         *)
(* Numbers.  Amounts are decimal numbers in the source (FLOAT column,      *)
(* parseFloat).  Here a stored or requested amount is an integer count of  *)
(* thousandths of its own currency unit.                                   *)
(*                                                                         *)
(* The listing compares stored amounts with thresholds that went through   *)
(* the exchange rates, where one unit in the last place decides whether a  *)
(* record on the boundary is listed: there the numbers are IEEE-754        *)
(* doubles, and parseFloat and the two products are rounded as the         *)
(* hardware rounds them.                                                   *)
(*                                                                         *)
(* The summaries add amounts up and round the result to cents.  There a    *)
(* USD-equivalent value is an integer numerator over the denominator       *)
(* UsdDen * Scale, the factor 0.00025 is the exact fraction 1/4000, and    *)
(* the arithmetic is exact decimal arithmetic.                             *)
(*                                                                         *)
(* Time.  A calendar day is its number of days since 2020-01-01.  A        *)
(* JavaScript Date is an instant [day, ms] in UTC; the server's time zone  *)
(* offset tz is part of the state, chosen at start-up, and so is the       *)
(* current local date, now.                                                *)
(***************************************************************************)
EXTENDS Integers, Sequences, FiniteSets, TLC

VARIABLES records, categories, tz, now, req, dbq, resp,
          users, clock, pending, mail, redeemed, seq

vars == <<records, categories, tz, now, req, dbq, resp,
         users, clock, pending, mail, redeemed, seq>>

\* The part of the state that the listing and the summaries never touch: the
\* user table, the clock behind Date.now(), the handlers suspended at an
\* await, the reset mails sent, the reset tokens redeemed, and the storage's
\* auto-increment and token sequences.
accounts == <<users, clock, pending, mail, redeemed, seq>>

-----------------------------------------------------------------------------
(* Values that stand for JavaScript's undefined / null / NaN.             *)

Undefined == -2000000001
Null == -2000000002
NaN == -2000000003
NotANumber == -2000000004
Infinity == -2000000005

-----------------------------------------------------------------------------
(* IEEE-754 double precision, for the products with the exchange rates.    *)
(* A natural number is a list of digits in base 2^14, least significant    *)
(* first; a double is [m, e] for the value m * 2^e with m of exactly 53     *)
(* bits, or m = <<>> for zero.  Only non-negative values occur.            *)

Base == 16384
DigitBits == 14
MantissaBits == 53

RECURSIVE Trim(_)
Trim(a) == IF Len(a) > 0 /\ a[Len(a)] = 0 THEN Trim(SubSeq(a, 1, Len(a) - 1)) ELSE a

RECURSIVE Carry(_, _)
\* The digits of (raw digit sums a) + c, carries propagated.
Carry(a, c) ==
    IF Len(a) = 0 THEN (IF c = 0 THEN <<>> ELSE <<c % Base>> \o Carry(<<>>, c \div Base))
    ELSE LET t == Head(a) + c IN <<t % Base>> \o Carry(Tail(a), t \div Base)

FromInt(n) == Carry(<<>>, n)

RECURSIVE Convolve(_, _, _, _)
\* The sum of a[i] * b[k + 1 - i] for i from `i` on.
Convolve(a, b, k, i) ==
    IF i > Len(a) \/ i > k THEN 0
    ELSE (IF k + 1 - i <= Len(b) THEN a[i] * b[k + 1 - i] ELSE 0) + Convolve(a, b, k, i + 1)

BigMul(a, b) ==
    IF Len(a) = 0 \/ Len(b) = 0 THEN <<>>
    ELSE Trim(Carry([ k \in 1..(Len(a) + Len(b) - 1) |-> Convolve(a, b, k, 1) ], 0))

\* a + b for natural numbers given by their digits.
BigAdd(a, b) ==
    LET n == IF Len(a) > Len(b) THEN Len(a) ELSE Len(b)
        at(x, i) == IF i <= Len(x) THEN x[i] ELSE 0
    IN  Trim(Carry([ i \in 1..n |-> at(a, i) + at(b, i) ], 0))

RECURSIVE DivDigits(_, _, _)
\* Long division of the digits a (taken from the top) by d < Base, with the
\* remainder rem carried in: the quotient digits, most significant first,
\* followed by the final remainder.
DivDigits(a, d, rem) ==
    IF Len(a) = 0 THEN <<rem>>
    ELSE LET t == rem * Base + a[Len(a)]
         IN  <<t \div d>> \o DivDigits(SubSeq(a, 1, Len(a) - 1), d, t % d)

RECURSIVE Reverse(_)
Reverse(s) == IF Len(s) = 0 THEN <<>> ELSE Reverse(Tail(s)) \o <<Head(s)>>

RECURSIVE IntBits(_, _)
IntBits(n, k) == IF k = 0 THEN <<>> ELSE <<n % 2>> \o IntBits(n \div 2, k - 1)

RECURSIVE ToBitsRaw(_)
ToBitsRaw(a) == IF Len(a) = 0 THEN <<>> ELSE IntBits(Head(a), DigitBits) \o ToBitsRaw(Tail(a))

\* The bits of a, least significant first, without leading zeros.
ToBits(a) == Trim(ToBitsRaw(a))

RECURSIVE BitsToInt(_)
BitsToInt(b) == IF Len(b) = 0 THEN 0 ELSE Head(b) + 2 * BitsToInt(Tail(b))

RECURSIVE FromBits(_)
FromBits(b) ==
    IF Len(b) = 0 THEN <<>>
    ELSE IF Len(b) <= DigitBits THEN <<BitsToInt(b)>>
    ELSE <<BitsToInt(SubSeq(b, 1, DigitBits))>> \o FromBits(SubSeq(b, DigitBits + 1, Len(b)))

Zeros(k) == [ i \in 1..k |-> 0 ]

\* The double nearest to p * 2^e (round to nearest, ties to even), p given
\* by its bits.
RoundD(bits, e) ==
    LET len == Len(bits)
    IN  IF len = 0 THEN [m |-> <<>>, e |-> 0]
        ELSE IF len <= MantissaBits THEN
            [ m |-> Trim(FromBits(Zeros(MantissaBits - len) \o bits)),
              e |-> e - (MantissaBits - len) ]
        ELSE
            LET s      == len - MantissaBits
                q      == SubSeq(bits, s + 1, len)
                half   == bits[s] = 1
                sticky == \E i \in 1..(s - 1) : bits[i] = 1
                up     == half /\ (sticky \/ q[1] = 1)
                m      == IF up THEN Carry(FromBits(q), 1) ELSE FromBits(q)
            IN  IF Len(ToBits(m)) > MantissaBits
                   THEN [ m |-> FromBits(Zeros(MantissaBits - 1) \o <<1>>), e |-> e + s + 1 ]
                   ELSE [ m |-> m, e |-> e + s ]

\* The double nearest to the fraction a / d, for a natural number a given by
\* its digits and 0 < d < Base.
DoubleOfNat(a, d) ==
    LET nbits == ToBits(a)
        k     == 2 * MantissaBits
        qr    == DivDigits(FromBits(Zeros(k) \o nbits), d, 0)
        q     == Reverse(SubSeq(qr, 1, Len(qr) - 1))
        r     == qr[Len(qr)]
    IN  IF Len(nbits) = 0 THEN [m |-> <<>>, e |-> 0]
        ELSE RoundD(Trim(<<IF r = 0 THEN 0 ELSE 1>> \o ToBitsRaw(q)), -(k + 1))

\* The double nearest to the fraction n / d (0 <= n, 0 < d < Base): the
\* value of a decimal literal or of parseFloat on a decimal string.
DoubleOf(n, d) == DoubleOfNat(FromInt(n), d)

\* x * y in double arithmetic.
MulD(x, y) ==
    IF Len(x.m) = 0 \/ Len(y.m) = 0 THEN [m |-> <<>>, e |-> 0]
    ELSE RoundD(ToBits(BigMul(x.m, y.m)), x.e + y.e)

RECURSIVE LeqDigits(_, _)
\* a <= b for digit lists of equal length.
LeqDigits(a, b) ==
    IF Len(a) = 0 THEN TRUE
    ELSE IF a[Len(a)] # b[Len(b)] THEN a[Len(a)] < b[Len(b)]
    ELSE LeqDigits(SubSeq(a, 1, Len(a) - 1), SubSeq(b, 1, Len(b) - 1))

\* x <= y for doubles.
LeqD(x, y) ==
    IF Len(x.m) = 0 THEN TRUE
    ELSE IF Len(y.m) = 0 THEN FALSE
    ELSE IF x.e # y.e THEN x.e < y.e
    ELSE LeqDigits(x.m, y.m)

-----------------------------------------------------------------------------
(* Currency conversion.                                                    *)

Scale == 1000
USD_TO_KHR == 4000
KHR_TO_USD_NUM == 1
UsdDen == 4000

\* The literals 4000 and 0.00025 as doubles.
UsdToKhrRate == DoubleOf(USD_TO_KHR, 1)
KhrToUsdRate == DoubleOf(KHR_TO_USD_NUM, UsdDen)

\* The amounts, in thousandths, that the listing's stores and amount
\* thresholds are made of.  Their doubles and products are tabulated once.
Decimals == {0, 99990, 100000, 700000, 399999990, 400000000, 400000010}

ParseFloatOf == [ a \in Decimals |-> DoubleOf(a, Scale) ]

\* parseFloat of a decimal string; also the value a FLOAT column holds.
ParseFloat(amount) == ParseFloatOf[amount]

TimesKhrToUsdOf == [ a \in Decimals |-> MulD(ParseFloatOf[a], KhrToUsdRate) ]

\* Lines 11-15.
convertToBaseCurrency(amount, currency) ==
    IF currency = "USD" THEN ParseFloat(amount)
    ELSE IF currency = "KHR" THEN TimesKhrToUsdOf[amount]
    ELSE ParseFloat(amount)

TimesUsdToKhrOf ==
    [ x \in { ParseFloatOf[a] : a \in Decimals } \cup { TimesKhrToUsdOf[a] : a \in Decimals }
        |-> MulD(x, UsdToKhrRate) ]

\* x * EXCHANGE_RATES.USD_TO_KHR for a threshold x in USD.
TimesUsdToKhr(x) == TimesUsdToKhrOf[x]

-----------------------------------------------------------------------------
(* Dates.                                                                  *)

DayMs == 86400000
EndOfDayMs == 86399999

Inst(day, ms) == [day |-> day, ms |-> ms]

\* The instant `delta` milliseconds after inst.
AddMs(inst, delta) ==
    LET t == inst.ms + delta
    IN  Inst(inst.day + (t \div DayMs), t % DayMs)

\* new Date("YYYY-MM-DD"): a date-only ISO string is midnight UTC.
ParseIsoDate(day) == Inst(day, 0)

\* The local wall-clock reading of an instant.
ToLocal(inst) == AddMs(inst, tz)

\* Date.prototype.setHours(23, 59, 59, 999): local fields, same local day.
SetHoursEndOfDay(inst) == AddMs(Inst(ToLocal(inst).day, EndOfDayMs), -tz)

\* The DATEONLY column type writes a Date as its local calendar day.
DateOnlyString(inst) == ToLocal(inst).day

-----------------------------------------------------------------------------
(* The record store.                                                       *)

Users == {1, 2}

Rec(id, u, c, t, d, cur, a) ==
    [id |-> id, userId |-> u, categoryId |-> c, title |-> t,
     date |-> d, currency |-> cur, amount |-> a]


\* Title ranks stand for title strings in their collation order.
Pool ==
    { Rec(1, 1, 1,    2, 10, "USD", 100000),
      Rec(2, 1, 1,    1, 11, "KHR", 400000000),
      Rec(3, 1, 2,    3, 11, "KHR", 399999990),
      Rec(4, 1, Null, 1, 12, "USD", 99990),
      Rec(5, 2, 3,    2, 11, "USD", 100000),
      Rec(6, 1, 2,    2, 10, "KHR", 400000010),
      Rec(7, 1, 1,    3, 12, "KHR", 700000) }

TimeZones == { -18000000, 0, 25200000 }

-----------------------------------------------------------------------------
(* Query-string parsing.                                                   *)

\* parseInt of a query value: a missing or non-numeric value gives NaN.
ParseInt(raw) == IF raw \in {Undefined, NotANumber} THEN NaN ELSE raw

\* `x ?? d`-like reading: only a missing number is replaced.
OrDefaultKeepZero(v, d) == IF v = NaN THEN d ELSE v

\* The JavaScript idiom `x || d` on a number: NaN and 0 are falsy.
OrDefault(v, d) == IF v = NaN \/ v = 0 THEN d ELSE v

\* Truthiness of a query string: a missing (or empty) value is falsy, every
\* other string, "0" included, is truthy.
Truthy(raw) == raw # Undefined

\* The same for a parameter modelled as a string: "" stands for a missing or
\* empty one.
TruthyStr(s) == s # ""

\* Math.ceil(a / b) for a >= 0; a division by zero gives Infinity, 0 / 0 NaN.
CeilDiv(a, b) ==
    IF b = 0 THEN (IF a = 0 THEN NaN ELSE Infinity)
    ELSE IF b > 0 THEN -((-a) \div b)
    ELSE -(a \div (-b))

-----------------------------------------------------------------------------
(* The filter descriptor (whereConditions) and its evaluation by storage.  *)

\* One OR-branch: the native currency and the bounds on the amount column,
\* each a list of one double, or empty when the branch has no such bound.
Branch(cur, gte, lte) == [currency |-> cur, gte |-> gte, lte |-> lte]

\* Lines 154-210: the currency-aware amount range, a list of OR-branches.
AmountConditions(q) ==
    LET cur    == IF TruthyStr(q.amountCurrency) THEN q.amountCurrency ELSE "USD"
        minUSD == IF Truthy(q.minAmount)
                     THEN << convertToBaseCurrency(q.minAmount, cur) >> ELSE <<>>
        maxUSD == IF Truthy(q.maxAmount)
                     THEN << convertToBaseCurrency(q.maxAmount, cur) >> ELSE <<>>
    IN  IF ~(Truthy(q.minAmount) \/ Truthy(q.maxAmount)) THEN <<>>
        ELSE IF Len(minUSD) = 1 /\ Len(maxUSD) = 1 THEN
            << Branch("USD", minUSD, maxUSD),
               Branch("KHR", << TimesUsdToKhr(minUSD[1]) >>, << TimesUsdToKhr(maxUSD[1]) >>) >>
        ELSE IF Len(minUSD) = 1 THEN
            << Branch("USD", minUSD, <<>>),
               Branch("KHR", << TimesUsdToKhr(minUSD[1]) >>, <<>>) >>
        ELSE IF Len(maxUSD) = 1 THEN
            << Branch("USD", <<>>, maxUSD),
               Branch("KHR", <<>>, << TimesUsdToKhr(maxUSD[1]) >>) >>
        ELSE <<>>

\* whereConditions with the OR of the amount branches pushed even when empty.
BuildWhereAlwaysOr(userId, q) ==
    [ userId     |-> userId,
      categoryId |-> IF Truthy(q.categoryId) THEN ParseInt(q.categoryId) ELSE Null,
      and        |-> << AmountConditions(q) >>,
      dateGte    |-> IF Truthy(q.startDate)
                        THEN << ParseIsoDate(q.startDate) >> ELSE <<>>,
      dateLte    |-> IF Truthy(q.endDate)
                        THEN << SetHoursEndOfDay(ParseIsoDate(q.endDate)) >> ELSE <<>> ]

\* Lines 143-227: whereConditions.
BuildWhere(userId, q) ==
    LET ac == AmountConditions(q)
    IN  [ userId     |-> userId,
          categoryId |-> IF Truthy(q.categoryId) THEN ParseInt(q.categoryId) ELSE Null,
          and        |-> IF Len(ac) > 0 THEN << ac >> ELSE <<>>,
          dateGte    |-> IF Truthy(q.startDate)
                            THEN << ParseIsoDate(q.startDate) >> ELSE <<>>,
          dateLte    |-> IF Truthy(q.endDate)
                            THEN << SetHoursEndOfDay(ParseIsoDate(q.endDate)) >> ELSE <<>> ]

\* currency = ... AND amount >= ... AND amount <= ... on one row.
BranchMatches(b, r) ==
    /\ r.currency = b.currency
    /\ \A i \in 1..Len(b.gte) : LeqD(b.gte[i], ParseFloat(r.amount))
    /\ \A i \in 1..Len(b.lte) : LeqD(ParseFloat(r.amount), b.lte[i])

\* The storage's evaluation of whereConditions on one row.
Matches(w, r) ==
    /\ r.userId = w.userId
    /\ w.categoryId # Null => r.categoryId = w.categoryId
    /\ \A i \in 1..Len(w.and) :
          \E j \in 1..Len(w.and[i]) : BranchMatches(w.and[i][j], r)
    /\ \A i \in 1..Len(w.dateGte) : r.date >= DateOnlyString(w.dateGte[i])
    /\ \A i \in 1..Len(w.dateLte) : r.date <= DateOnlyString(w.dateLte[i])

Matching(w) == { r \in records : Matches(w, r) }

\* db.Record.count({ where })
Count(w) == Cardinality(Matching(w))

SortKey(r, field) ==
    CASE field = "id"     -> r.id
      [] field = "amount" -> r.amount
      [] field = "date"   -> r.date
      [] field = "title"  -> r.title

\* The rows that may come first under ORDER BY field dir.
First(S, field, dir) ==
    { m \in S : \A r \in S :
        IF dir = "DESC" THEN SortKey(m, field) >= SortKey(r, field)
                        ELSE SortKey(m, field) <= SortKey(r, field) }

\* Every row order the storage may produce for ORDER BY field dir: rows with
\* equal keys come in any order.
RECURSIVE Ordered(_, _, _)
Ordered(S, field, dir) ==
    IF S = {} THEN { <<>> }
    ELSE UNION { { <<m>> \o s : s \in Ordered(S \ {m}, field, dir) } :
                 m \in First(S, field, dir) }

Min2(a, b) == IF a < b THEN a ELSE b

\* LIMIT / OFFSET on an ordered row list.  A storage that accepts a negative
\* LIMIT reads it as no limit, and a negative OFFSET as 0.
Page(rows, limit, offset) ==
    LET off == IF offset < 0 THEN 0 ELSE offset
        lim == IF limit < 0 THEN Len(rows) ELSE limit
    IN  SubSeq(rows, off + 1, Min2(off + lim, Len(rows)))

\* db.Record.findAll({ where, limit, offset, order }): the possible results.
FindAll(w, field, dir, limit, offset) ==
    { Page(rows, limit, offset) : rows \in Ordered(Matching(w), field, dir) }

-----------------------------------------------------------------------------
(* GET /api/records                                                        *)

\* A case-insensitive reading of the direction.
SortDirectionAnyCase(sort) == IF sort \in {"desc", "DESC"} THEN "DESC" ELSE "ASC"

\* Line 131.
SortDirection(sort) == IF sort = "desc" THEN "DESC" ELSE "ASC"

\* Lines 132 and 229-231.
validSortFields == {"id", "amount", "date", "title"}

OrderField(sortByRaw) ==
    LET sortBy == IF TruthyStr(sortByRaw) THEN sortByRaw ELSE "id"
    IN  IF sortBy \in validSortFields THEN sortBy ELSE "id"

Idle == [op |-> "idle"]

getAllRecords(userId, q) ==
    LET page       == OrDefault(ParseInt(q.page), 1)
        pageSize   == OrDefault(ParseInt(q.pageSize), 10)
        sort       == SortDirection(q.sort)
        orderField == OrderField(q.sortBy)
        where      == BuildWhere(userId, q)
        total      == Count(where)
        limit      == pageSize
        offset     == (page - 1) * pageSize
    IN  /\ resp.op = "idle"
        /\ req' = [op |-> "getAllRecords", userId |-> userId, query |-> q]
        /\ dbq' = [op |-> "findAll", where |-> where, limit |-> limit,
                   offset |-> offset, order |-> <<orderField, sort>>]
        /\ \/ \* the storage refuses a negative LIMIT or OFFSET: catch, 500
              /\ limit < 0 \/ offset < 0
              /\ resp' = [op |-> "getAllRecords", status |-> 500]
           \/ \E rows \in FindAll(where, orderField, sort, limit, offset) :
                 resp' = [op |-> "getAllRecords", status |-> 200,
                          meta |-> [totalItems |-> total,
                                    page       |-> page,
                                    pageSize   |-> pageSize,
                                    totalPages |-> CeilDiv(total, pageSize),
                                    sortBy     |-> orderField,
                                    sort       |-> sort],
                          data |-> rows]
        /\ UNCHANGED <<records, categories, tz, now, accounts>>

\* The response has been sent; the server waits for the next request.
Finish ==
    /\ resp.op # "idle"
    /\ req' = Idle
    /\ dbq' = Idle
    /\ resp' = Idle
    /\ UNCHANGED <<records, categories, tz, now, accounts>>

-----------------------------------------------------------------------------
(* The calendar.                                                           *)

IsLeapYear(y) == (y % 4 = 0 /\ y % 100 # 0) \/ y % 400 = 0

\* A calendar without leap years.
DaysInMonthCommonYear(y, m) ==
    IF m = 2 THEN 28 ELSE IF m \in {4, 6, 9, 11} THEN 30 ELSE 31

\* new Date(year, month, 0).getDate() for month in 1..12.
DaysInMonth(y, m) ==
    IF m = 2 THEN (IF IsLeapYear(y) THEN 29 ELSE 28)
    ELSE IF m \in {4, 6, 9, 11} THEN 30 ELSE 31

DaysInYear(y) == IF IsLeapYear(y) THEN 366 ELSE 365

RECURSIVE DaysBeforeMonth(_, _)
DaysBeforeMonth(y, m) ==
    IF m = 1 THEN 0 ELSE DaysBeforeMonth(y, m - 1) + DaysInMonth(y, m - 1)

RECURSIVE DaysBeforeYear(_)
DaysBeforeYear(y) ==
    IF y = 2020 THEN 0
    ELSE IF y > 2020 THEN DaysBeforeYear(y - 1) + DaysInYear(y - 1)
    ELSE DaysBeforeYear(y + 1) - DaysInYear(y)

\* The day number of the calendar date y-m-d.
DayNumber(y, m, d) == DaysBeforeYear(y) + DaysBeforeMonth(y, m) + d - 1

\* new Date(y, m - 1, d, ...) with ms milliseconds into the day: local time.
LocalDate(y, m, d, ms) == AddMs(Inst(DayNumber(y, m, d), ms), -tz)

\* The date range of a month, as getMonthlySummary and getRecentAverage
\* build it: new Date(year, month - 1, 1) and
\* new Date(year, month, 0, 23, 59, 59, 999).
MonthWhere(userId, y, m) ==
    [ userId  |-> userId,
      dateGte |-> LocalDate(y, m, 1, 0),
      dateLte |-> LocalDate(y, m, DaysInMonth(y, m), EndOfDayMs) ]

-----------------------------------------------------------------------------
(* Sums and rounding.                                                      *)

RECURSIVE SumOver(_, _)
\* The sum of f[r] over the rows of a list.
SumOver(rows, f) ==
    IF Len(rows) = 0 THEN 0 ELSE f[Head(rows)] + SumOver(Tail(rows), f)

\* Math.round(x * 100) / 100 for x in thousandths: halves round up.
Round2(x) == ((x + 5) \div 10) * 10

\* Math.round((p / q) * 100) / 100 for the exact quotient p / q, q > 0.
RoundDiv2(p, q) == ((2 * p + 10 * q) \div (20 * q)) * 10

\* Math.round(((c / g) * 100) * 100) / 100 in hundredths of a percent, by
\* long division (g > 0, 10 * g within the integer range).
PercentHundredths(c, g) ==
    LET q0 == c \div g
        r0 == c % g
        q1 == (10 * r0) \div g
        r1 == (10 * r0) % g
        q2 == (10 * r1) \div g
        r2 == (10 * r1) % g
        q3 == (10 * r2) \div g
        r3 == (10 * r2) % g
        q4 == (10 * r3) \div g
        r4 == (10 * r3) % g
    IN  10000 * q0 + 1000 * q1 + 100 * q2 + 10 * q3 + q4
        + (IF 2 * r4 >= g THEN 1 ELSE 0)

\* convertToUSD of the summary controller: parseFloat(amount), times
\* EXCHANGE_RATES.KHR_TO_USD for KHR, as a numerator over UsdDen.
convertToUSD(amount, currency) ==
    IF currency = "USD" THEN amount * UsdDen
    ELSE IF currency = "KHR" THEN amount * KHR_TO_USD_NUM
    ELSE amount * UsdDen

\* The KHR value of a USD total that was rounded to cents first.
UsdToKhrFromCents(x) == RoundDiv2(x, UsdDen) * USD_TO_KHR

\* x * EXCHANGE_RATES.USD_TO_KHR for a USD total x carried over UsdDen: the
\* product in thousandths of a KHR (quotient and remainder multiplied apart).
UsdToKhr(x) ==
    (x \div UsdDen) * USD_TO_KHR + ((x % UsdDen) * USD_TO_KHR) \div UsdDen

-----------------------------------------------------------------------------
(* GET /api/summary/monthly                                                *)

\* The included Category of a record (record.Category), or none.
CategoryOf(r) == { c \in categories : c.id = r.categoryId }

CategoryIdOf(r) == IF CategoryOf(r) = {} THEN Null ELSE r.categoryId

NativeAmount(cur) == [ r \in records |-> IF r.currency = cur THEN r.amount ELSE 0 ]

RECURSIVE DiscoveryOrderCategorized(_, _)
\* A grouping that passes over the records without a category.
DiscoveryOrderCategorized(rows, seen) ==
    IF Len(rows) = 0 THEN <<>>
    ELSE LET k == CategoryIdOf(Head(rows))
         IN  IF k \in seen \/ k = Null THEN DiscoveryOrderCategorized(Tail(rows), seen)
             ELSE <<k>> \o DiscoveryOrderCategorized(Tail(rows), seen \cup {k})

\* Lines 437-459: the category ids in the order the rows reveal them.
RECURSIVE DiscoveryOrder(_, _)
DiscoveryOrder(rows, seen) ==
    IF Len(rows) = 0 THEN <<>>
    ELSE LET k == CategoryIdOf(Head(rows))
         IN  IF k \in seen THEN DiscoveryOrder(Tail(rows), seen)
             ELSE <<k>> \o DiscoveryOrder(Tail(rows), seen \cup {k})

\* Lines 462-476: one entry of the breakdown; the totals are rounded first
\* and the percentage is taken from the rounded figures.
BreakdownEntry(k, rows, totals) ==
    LET mine == SelectSeq(rows, LAMBDA r : CategoryIdOf(r) = k)
        cat  == IF k = Null THEN {} ELSE { c \in categories : c.id = k }
        totalUSD == Round2(SumOver(mine, NativeAmount("USD")))
        totalKHR == Round2(SumOver(mine, NativeAmount("KHR")))
        categoryTotalUSD == convertToUSD(totalUSD, "USD") + convertToUSD(totalKHR, "KHR")
        grandTotalUSD == convertToUSD(totals.USD, "USD") + convertToUSD(totals.KHR, "KHR")
    IN  [ categoryId    |-> k,
          categoryName  |-> IF cat = {} THEN "Uncategorized"
                                        ELSE (CHOOSE c \in cat : TRUE).name,
          categoryColor |-> IF cat = {} THEN "#808080"
                                        ELSE (CHOOSE c \in cat : TRUE).color,
          totalUSD      |-> totalUSD,
          totalKHR      |-> totalKHR,
          recordCount   |-> Len(mine),
          percentage    |-> IF grandTotalUSD > 0
                               THEN PercentHundredths(categoryTotalUSD, grandTotalUSD)
                               ELSE 0 ]

EntryUSD(e) == convertToUSD(e.totalUSD, "USD") + convertToUSD(e.totalKHR, "KHR")

\* Lines 479-483: Array.prototype.sort, stable, descending by USD total.
RECURSIVE InsertDesc(_, _)
InsertDesc(e, sorted) ==
    IF Len(sorted) = 0 THEN <<e>>
    ELSE IF EntryUSD(Head(sorted)) >= EntryUSD(e)
         THEN <<Head(sorted)>> \o InsertDesc(e, Tail(sorted))
         ELSE <<e>> \o sorted

RECURSIVE SortBreakdown(_)
SortBreakdown(entries) ==
    IF Len(entries) = 0 THEN <<>>
    ELSE LET n == Len(entries)
         IN  InsertDesc(entries[n], SortBreakdown(SubSeq(entries, 1, n - 1)))

\* The rows of a date range whoever owns them.
MonthRowsAnyUser(w, currency) ==
    { r \in records :
        /\ r.date >= DateOnlyString(w.dateGte)
        /\ r.date <= DateOnlyString(w.dateLte)
        /\ currency # "ALL" => r.currency = currency }

\* The rows of a month for one user, with the optional currency filter.
MonthRows(w, currency) ==
    { r \in records :
        /\ r.userId = w.userId
        /\ r.date >= DateOnlyString(w.dateGte)
        /\ r.date <= DateOnlyString(w.dateLte)
        /\ currency # "ALL" => r.currency = currency }

getMonthlySummary(userId, q) ==
    LET month    == OrDefault(ParseInt(q.month), now.month)
        year     == OrDefault(ParseInt(q.year), now.year)
        currency == IF TruthyStr(q.currency) THEN q.currency ELSE "ALL"
    IN  /\ resp.op = "idle"
        /\ req' = [op |-> "getMonthlySummary", userId |-> userId, query |-> q]
        /\ IF month < 1 \/ month > 12 THEN
               /\ resp' = [op |-> "getMonthlySummary", status |-> 400,
                           error |-> "Month must be between 1 and 12"]
               /\ dbq' = Idle
           ELSE IF year < 2020 \/ year > 2030 THEN
               /\ resp' = [op |-> "getMonthlySummary", status |-> 400,
                           error |-> "Year must be between 2020 and 2030"]
               /\ dbq' = Idle
           ELSE
               LET where == MonthWhere(userId, year, month)
                   daysInMonth == DaysInMonth(year, month)
               IN  /\ dbq' = [op |-> "findAll", where |-> where, currency |-> currency,
                              order |-> <<"date", "DESC">>]
                   /\ \E rows \in Ordered(MonthRows(where, currency), "date", "DESC") :
                        LET totals == [ USD |-> Round2(SumOver(rows, NativeAmount("USD"))),
                                        KHR |-> Round2(SumOver(rows, NativeAmount("KHR"))) ]
                            keys == DiscoveryOrder(rows, {})
                            entries == [ i \in 1..Len(keys) |->
                                           BreakdownEntry(keys[i], rows, totals) ]
                        IN  resp' =
                              [ op |-> "getMonthlySummary", status |-> 200,
                                summary |->
                                  [ month |-> month, year |-> year, currency |-> currency,
                                    totalExpenses |-> totals,
                                    recordCount |-> Len(rows),
                                    averagePerDay |->
                                      [ USD |-> RoundDiv2(totals.USD, daysInMonth),
                                        KHR |-> RoundDiv2(totals.KHR, daysInMonth) ],
                                    isEmpty |-> Len(rows) = 0 ],
                                categoryBreakdown |-> SortBreakdown(entries) ]
        /\ UNCHANGED <<records, categories, tz, now, accounts>>

-----------------------------------------------------------------------------
(* GET /api/summary/recent-average                                         *)

monthNames ==
    << "January", "February", "March", "April", "May", "June",
       "July", "August", "September", "October", "November", "December" >>

\* The month i months back without the carry into the previous year.
TargetMonthSameYear(i) ==
    [ year |-> now.year, month |-> (((now.month - 1) - i) % 12) + 1 ]

\* new Date(currentDate.getFullYear(), currentDate.getMonth() - i, 1): the
\* constructor carries a month index below 0 into the previous year.
TargetMonth(i) ==
    LET idx == (now.month - 1) - i
    IN  [ year |-> now.year + (idx \div 12), month |-> (idx % 12) + 1 ]

UsdAmount == [ r \in records |-> convertToUSD(r.amount, r.currency) ]

SetToSeq(S) == CHOOSE s \in [1..Cardinality(S) -> S] : \A r \in S : \E i \in DOMAIN s : s[i] = r

\* Lines 606-683: the figures of the i-th most recent month.
RecentMonth(userId, displayCurrency, i) ==
    LET t     == TargetMonth(i)
        where == MonthWhere(userId, t.year, t.month)
        rows  == SetToSeq(MonthRows(where, "ALL"))
        rawTotals == [ USD |-> Round2(SumOver(rows, NativeAmount("USD"))),
                       KHR |-> Round2(SumOver(rows, NativeAmount("KHR"))) ]
        monthTotalUSD == SumOver(rows, UsdAmount)
        totalExpenses ==
            IF displayCurrency = "USD" THEN
                [ USD |-> RoundDiv2(monthTotalUSD, UsdDen),
                  KHR |-> Round2(UsdToKhr(monthTotalUSD)) ]
            ELSE IF displayCurrency = "KHR" THEN
                LET monthTotalKHR == UsdToKhr(monthTotalUSD)
                IN  [ USD |-> RoundDiv2(monthTotalUSD, UsdDen),
                      KHR |-> Round2(monthTotalKHR) ]
            ELSE
                [ USD |-> RoundDiv2(monthTotalUSD, UsdDen),
                  KHR |-> Round2(UsdToKhr(monthTotalUSD)) ]
        daysInMonth == DaysInMonth(t.year, t.month)
    IN  [ month |-> t.month,
          year |-> t.year,
          monthName |-> monthNames[t.month],
          totalExpenses |-> totalExpenses,
          averagePerDay |-> [ USD |-> RoundDiv2(totalExpenses.USD, daysInMonth),
                              KHR |-> RoundDiv2(totalExpenses.KHR, daysInMonth) ],
          recordCount |-> Len(rows),
          rawTotals |-> rawTotals,
          monthTotalUSD |-> monthTotalUSD,
          daysInMonth |-> daysInMonth ]

\* The average per day over a rolling window of 90 days.
OverallAverageOf90Days(overallTotalsUSD, totalDays) ==
    [ USD |-> RoundDiv2(overallTotalsUSD, UsdDen * 90),
      KHR |-> RoundDiv2(UsdToKhr(overallTotalsUSD), 90) ]

\* Lines 686-689: the average per day over the three months together.
OverallAverage(overallTotalsUSD, totalDays) ==
    [ USD |-> RoundDiv2(overallTotalsUSD, UsdDen * totalDays),
      KHR |-> RoundDiv2(UsdToKhr(overallTotalsUSD), totalDays) ]

getRecentAverage(userId, q) ==
    LET displayCurrency == IF TruthyStr(q.displayCurrency) THEN q.displayCurrency ELSE "BOTH"
        months == [ i \in 1..3 |-> RecentMonth(userId, displayCurrency, i - 1) ]
        totalDays == months[1].daysInMonth + months[2].daysInMonth + months[3].daysInMonth
        overallTotalsUSD ==
            months[1].monthTotalUSD + months[2].monthTotalUSD + months[3].monthTotalUSD
        Public(m) == [ month |-> m.month, year |-> m.year, monthName |-> m.monthName,
                       totalExpenses |-> m.totalExpenses,
                       averagePerDay |-> m.averagePerDay,
                       recordCount |-> m.recordCount, rawTotals |-> m.rawTotals ]
    IN  /\ resp.op = "idle"
        /\ req' = [op |-> "getRecentAverage", userId |-> userId, query |-> q]
        /\ dbq' = [op |-> "findAll",
                   where |-> MonthWhere(userId, TargetMonth(2).year, TargetMonth(2).month)]
        /\ resp' = [ op |-> "getRecentAverage", status |-> 200,
                     displayCurrency |-> displayCurrency,
                     recentMonths |-> [ i \in 1..3 |-> Public(months[i]) ],
                     overallAverage |-> OverallAverage(overallTotalsUSD, totalDays) ]
        /\ UNCHANGED <<records, categories, tz, now, accounts>>

-----------------------------------------------------------------------------
(* GET /api/summary/top5                                                   *)

\* Lines 770-773: setMonth(getMonth() - 3) keeps the day of the month, and a
\* day past the end of the target month runs over into the month after it;
\* setDate(1) and setHours(0, 0, 0, 0) then go to the start of the month
\* the date has landed in.
ThreeMonthsAgo ==
    LET idx    == (now.month - 1) - 3
        year   == now.year + (idx \div 12)
        month  == (idx % 12) + 1
        landed == IF now.day > DaysInMonth(year, month) THEN idx + 1 ELSE idx
    IN  [ year |-> now.year + (landed \div 12), month |-> (landed % 12) + 1 ]

\* Lines 770-785: the window of the ranking.
Top5Where(userId) ==
    [ userId  |-> userId,
      dateGte |-> LocalDate(ThreeMonthsAgo.year, ThreeMonthsAgo.month, 1, 0),
      dateLte |-> LocalDate(now.year, now.month, now.day, EndOfDayMs) ]

\* The denominator the converted amounts of one ranking are carried over.
ConvertedDen(displayCurrency) == IF displayCurrency = "USD" THEN UsdDen ELSE 1

\* Lines 806-817: the amount of a record in the display currency.
ConvertedAmount(r, displayCurrency) ==
    IF r.currency = displayCurrency THEN r.amount * ConvertedDen(displayCurrency)
    ELSE IF displayCurrency = "USD" THEN convertToUSD(r.amount, r.currency)
    ELSE IF displayCurrency = "KHR" THEN UsdToKhr(convertToUSD(r.amount, r.currency))
    ELSE r.amount

\* Lines 801-841: one row with its converted amount.
Top5Entry(r, displayCurrency) ==
    LET convertedAmount == ConvertedAmount(r, displayCurrency)
    IN  [ id               |-> r.id,
          title            |-> r.title,
          amount           |-> RoundDiv2(convertedAmount, ConvertedDen(displayCurrency)),
          originalAmount   |-> r.amount,
          originalCurrency |-> r.currency,
          date             |-> r.date,
          categoryName     |-> IF CategoryOf(r) = {} THEN "Uncategorized"
                               ELSE (CHOOSE c \in CategoryOf(r) : TRUE).name,
          categoryColor    |-> IF CategoryOf(r) = {} THEN "#808080"
                               ELSE (CHOOSE c \in CategoryOf(r) : TRUE).color,
          convertedAmount  |-> convertedAmount ]

RECURSIVE InsertAfterLarger(_, _)
\* An insertion that puts an entry before the entries it ties with.
InsertAfterLarger(e, sorted) ==
    IF Len(sorted) = 0 THEN <<e>>
    ELSE IF Head(sorted).convertedAmount > e.convertedAmount
         THEN <<Head(sorted)>> \o InsertAfterLarger(e, Tail(sorted))
         ELSE <<e>> \o sorted

\* Line 846: Array.prototype.sort, stable, descending by convertedAmount.
RECURSIVE InsertByConverted(_, _)
InsertByConverted(e, sorted) ==
    IF Len(sorted) = 0 THEN <<e>>
    ELSE IF Head(sorted).convertedAmount >= e.convertedAmount
         THEN <<Head(sorted)>> \o InsertByConverted(e, Tail(sorted))
         ELSE <<e>> \o sorted

\* The entries left in the order they were fetched in.
KeepFetchOrder(entries) == entries

RECURSIVE SortByConverted(_)
SortByConverted(entries) ==
    IF Len(entries) = 0 THEN <<>>
    ELSE LET n == Len(entries)
         IN  InsertByConverted(entries[n], SortByConverted(SubSeq(entries, 1, n - 1)))

\* Lines 848-852: the entry without its sort field (convertedAmount).
WithoutSortField(e) ==
    [ id |-> e.id, title |-> e.title, amount |-> e.amount,
      originalAmount |-> e.originalAmount, originalCurrency |-> e.originalCurrency,
      date |-> e.date, categoryName |-> e.categoryName,
      categoryColor |-> e.categoryColor ]

\* The query and the response of GET /api/summary/top5.
getTop5ExpensesAnswer(userId, q) ==
    LET displayCurrency == IF TruthyStr(q.displayCurrency) THEN q.displayCurrency ELSE "USD"
        where == Top5Where(userId)
    IN  /\ resp.op = "idle"
        /\ req' = [op |-> "getTop5Expenses", userId |-> userId, query |-> q]
        /\ \E rows \in Ordered(MonthRows(where, "ALL"), "date", "DESC") :
              LET entries == [ i \in 1..Len(rows) |-> Top5Entry(rows[i], displayCurrency) ]
                  sorted  == SortByConverted(entries)
                  top     == SubSeq(sorted, 1, Min2(5, Len(sorted)))
              IN  /\ dbq' = [op |-> "findAll", where |-> where,
                             order |-> <<"date", "DESC">>, result |-> rows]
                  /\ resp' = [ op |-> "getTop5Expenses", status |-> 200,
                               displayCurrency |-> displayCurrency,
                               totalRecords |-> Len(rows),
                               top5Expenses |-> [ i \in 1..Len(top) |->
                                                    WithoutSortField(top[i]) ] ]

\* A handler that saves each ranked record with its converted amount.
getTop5ExpensesSaving(userId, q) ==
    LET displayCurrency == IF TruthyStr(q.displayCurrency) THEN q.displayCurrency ELSE "USD"
        inWindow(r) == r \in MonthRows(Top5Where(userId), "ALL")
    IN  /\ getTop5ExpensesAnswer(userId, q)
        /\ records' = { IF inWindow(r) /\ displayCurrency \in {"USD", "KHR"}
                          THEN [r EXCEPT !.currency = displayCurrency,
                                         !.amount = ConvertedAmount(r, displayCurrency)
                                                       \div ConvertedDen(displayCurrency)]
                          ELSE r : r \in records }
        /\ UNCHANGED <<categories, tz, now, accounts>>

\* GET /api/summary/top5: nothing is written.
getTop5Expenses(userId, q) ==
    /\ getTop5ExpensesAnswer(userId, q)
    /\ UNCHANGED <<records, categories, tz, now, accounts>>

-----------------------------------------------------------------------------
(* Requests.                                                               *)

MaxPage == 3
MaxPageSize == 3

DefaultQuery ==
    [page |-> Undefined, pageSize |-> Undefined, sort |-> "", sortBy |-> "",
     categoryId |-> Undefined, minAmount |-> Undefined, maxAmount |-> Undefined,
     amountCurrency |-> "", startDate |-> Undefined, endDate |-> Undefined]

UsdThresholds == {Undefined, 0, 99990, 100000}
KhrThresholds == {Undefined, 0, 700000, 399999990, 400000000, 400000010}

AmountQueries ==
    { [DefaultQuery EXCEPT !.minAmount = lo, !.maxAmount = hi, !.amountCurrency = c] :
        lo \in UsdThresholds, hi \in UsdThresholds, c \in {"", "USD", "EUR"} }
    \cup
    { [DefaultQuery EXCEPT !.minAmount = lo, !.maxAmount = hi, !.amountCurrency = "KHR"] :
        lo \in KhrThresholds, hi \in KhrThresholds }

PageArgs == {Undefined, NotANumber} \cup (-1 .. MaxPage)
PageSizeArgs == {Undefined, NotANumber} \cup (-2 .. MaxPageSize)

PagingQueries ==
    { [DefaultQuery EXCEPT !.page = p, !.pageSize = ps] :
        p \in PageArgs, ps \in PageSizeArgs }

SortQueries ==
    { [DefaultQuery EXCEPT !.sort = s, !.sortBy = f, !.pageSize = ps] :
        s \in {"", "asc", "desc", "DESC", "down"},
        f \in {"", "id", "amount", "date", "title", "userId", "currency"},
        ps \in {Undefined, 2} }

FilterQueries ==
    { [DefaultQuery EXCEPT !.categoryId = c, !.startDate = sd, !.endDate = ed,
                           !.minAmount = lo] :
        c \in {Undefined, 0, 1, 2},
        sd \in {Undefined, 10, 11, 12}, ed \in {Undefined, 10, 11, 12},
        lo \in {Undefined, 100000} }

Categories ==
    { [id |-> 1, userId |-> 1, name |-> "Food", color |-> "#ff5722"],
      [id |-> 2, userId |-> 1, name |-> "Gas", color |-> "#2196f3"],
      [id |-> 3, userId |-> 2, name |-> "Food", color |-> "#ff5722"] }

-----------------------------------------------------------------------------
(* Conversion to USD and back, in doubles.                                 *)

\* A conversion that multiplies whatever the currency is.
convertToUsdAnyCurrency(x, currency) == MulD(x, KhrToUsdRate)

\* convertToUSD / convertToBaseCurrency on the double x that parseFloat
\* returned.
convertToUsdDouble(x, currency) ==
    IF currency = "USD" THEN x
    ELSE IF currency = "KHR" THEN MulD(x, KhrToUsdRate)
    ELSE x

\* The way back: a USD value is used as it is for USD records and
\* multiplied by EXCHANGE_RATES.USD_TO_KHR for KHR records.
convertFromUsdDouble(x, currency) ==
    IF currency = "KHR" THEN MulD(x, UsdToKhrRate) ELSE x

RECURSIVE PowerOfTen(_)
PowerOfTen(k) == IF k = 0 THEN <<1>> ELSE BigMul(<<10>>, PowerOfTen(k - 1))

\* The amounts converted there and back: millions * 10^6 + rest units of the
\* currency, the rest in thousandths; from 0.001 to about 10^15.
TripMillions == {0, 1, 1000, 10000000, 70368744, 100000000, 999999999}
TripRest == {0, 1, 10, 99990, 700000, 12000, 25000, 177665000, 999999990}
TripAmounts == { [millions |-> hi, rest |-> lo] : hi \in TripMillions, lo \in TripRest }

\* The amount in thousandths, as a natural number.
Thousandths(a) == BigAdd(BigMul(FromInt(a.millions), PowerOfTen(9)), FromInt(a.rest))

\* Convert the amount to USD and back to its currency.
RoundTrip(a, currency) ==
    LET x   == DoubleOfNat(Thousandths(a), Scale)
        usd == convertToUsdDouble(x, currency)
    IN  /\ resp.op = "idle"
        /\ req' = [op |-> "convert", amount |-> a, currency |-> currency]
        /\ resp' = [op |-> "convert", amount |-> x, usd |-> usd,
                    back |-> convertFromUsdDouble(usd, currency)]
        /\ UNCHANGED <<records, categories, tz, now, dbq, accounts>>

\* bcrypt.hash(password, 10): a one-way image of the password.
Hash(password) == <<"bcrypt", password>>

UserRow(id, email, password) ==
    [id |-> id, email |-> email, password |-> Hash(password),
     resetPasswordToken |-> Null, resetPasswordExpires |-> Null]

\* The accounts of the two users, as register leaves them.
Accounts ==
    { UserRow(1, "alice@example.com", "secret1"),
      UserRow(2, "bob@example.com", "secret2") }

\* The connections on which requests arrive; a handler suspended at an
\* await keeps its local variables in pending[conn].
Conns == {1, 2}
NoPending == [ c \in Conns |-> Idle ]

\* The next values of the auto-increment keys and of crypto.randomBytes.
FirstIds == [record |-> 101, category |-> 11, token |-> 1]

InitAccounts ==
    /\ users = Accounts
    /\ clock = 0
    /\ pending = NoPending
    /\ mail = {}
    /\ redeemed = {}
    /\ seq = FirstIds

Init ==
    /\ records \in SUBSET Pool
    /\ categories = Categories
    /\ tz \in TimeZones
    /\ now = [year |-> 2020, month |-> 1, day |-> 15]
    /\ req = Idle
    /\ dbq = Idle
    /\ resp = Idle
    /\ InitAccounts

ListAmount == \E u \in Users, q \in AmountQueries : getAllRecords(u, q)
ListPaging == \E u \in Users, q \in PagingQueries : getAllRecords(u, q)
ListSorted == \E u \in Users, q \in SortQueries : getAllRecords(u, q)
ListFiltered == \E u \in Users, q \in FilterQueries : getAllRecords(u, q)

NextAmount == ListAmount \/ Finish
SpecAmount == Init /\ [][NextAmount]_vars

NextPaging == ListPaging \/ ListSorted \/ Finish
SpecPaging == Init /\ [][NextPaging]_vars

NextFilter == ListFiltered \/ Finish
SpecFilter == Init /\ [][NextFilter]_vars

\* Thousandths: 0.004 USD twice, 584 KHR, 4000 KHR, 1 USD, 5 USD (another
\* user's), 584 KHR in a 30-day month, 12.34 USD.
SummaryPool ==
    { Rec(11, 1, 1,    1, DayNumber(2024, 4, 1),   "USD", 4),
      Rec(12, 1, 2,    2, DayNumber(2024, 4, 30),  "USD", 4),
      Rec(13, 1, Null, 3, DayNumber(2024, 4, 10),  "KHR", 584000),
      Rec(14, 1, 1,    1, DayNumber(2024, 3, 31),  "KHR", 4000000),
      Rec(15, 1, 2,    2, DayNumber(2024, 2, 29),  "USD", 1000),
      Rec(16, 2, 3,    3, DayNumber(2024, 4, 10),  "USD", 5000),
      Rec(17, 1, Null, 1, DayNumber(2024, 11, 30), "KHR", 584000),
      Rec(18, 1, 1,    2, DayNumber(2025, 1, 1),   "USD", 12340) }

Nows == { [year |-> 2024, month |-> 4, day |-> 30],
          [year |-> 2025, month |-> 1, day |-> 15] }

InitSummary ==
    /\ records \in SUBSET SummaryPool
    /\ categories = Categories
    /\ tz \in TimeZones
    /\ now \in Nows
    /\ req = Idle
    /\ dbq = Idle
    /\ resp = Idle
    /\ InitAccounts

MonthlyQueries ==
    { [month |-> m, year |-> y, currency |-> c] :
        m \in {Undefined, 0, 2, 3, 4, 13},
        y \in {Undefined, 2019, 2024},
        c \in {"", "ALL", "USD", "KHR"} }

RecentQueries == { [displayCurrency |-> c] : c \in {"", "USD", "KHR", "BOTH"} }

MonthlySummary == \E u \in Users, q \in MonthlyQueries : getMonthlySummary(u, q)
RecentAverage == \E u \in Users, q \in RecentQueries : getRecentAverage(u, q)

NextSummary == MonthlySummary \/ RecentAverage \/ Finish
SpecSummary == InitSummary /\ [][NextSummary]_vars

\* Thousandths: 1 USD on the last day of a leap and of a common February,
\* 4000 KHR in a 30-day month, 10 USD in a 31-day month, another user's
\* 5 USD, an amount of 0 (updateRecord accepts it), 0.004 USD, and 1 USD in
\* the middle of the leap February.
MonthlyPool ==
    { Rec(41, 1, 1,    1, DayNumber(2024, 2, 29), "USD", 1000),
      Rec(42, 1, 2,    2, DayNumber(2025, 2, 28), "USD", 1000),
      Rec(43, 1, Null, 3, DayNumber(2024, 4, 30), "KHR", 4000000),
      Rec(44, 1, 1,    1, DayNumber(2024, 3, 31), "USD", 10000),
      Rec(45, 2, 3,    2, DayNumber(2024, 4, 10), "USD", 5000),
      Rec(46, 1, 2,    3, DayNumber(2024, 4, 1),  "USD", 0),
      Rec(47, 1, 1,    1, DayNumber(2024, 3, 1),  "USD", 4),
      Rec(48, 1, 2,    2, DayNumber(2024, 2, 10), "USD", 1000) }

MonthlyNows == { [year |-> 2024, month |-> 4, day |-> 30],
                 [year |-> 2025, month |-> 2, day |-> 15] }

InitMonthly ==
    /\ records \in SUBSET MonthlyPool
    /\ categories = Categories
    /\ tz \in TimeZones
    /\ now \in MonthlyNows
    /\ req = Idle
    /\ dbq = Idle
    /\ resp = Idle
    /\ InitAccounts

MonthArgs == {Undefined, -1, 0, 2, 3, 4, 13}
YearArgs == {Undefined, 0, 2019, 2024, 2025, 2031}

MonthlyRangeQueries ==
    { [month |-> m, year |-> y, currency |-> c] :
        m \in MonthArgs, y \in YearArgs, c \in {"", "USD"} }

MonthlyRange == \E u \in Users, q \in MonthlyRangeQueries : getMonthlySummary(u, q)

NextMonthly == MonthlyRange \/ Finish
SpecMonthly == InitMonthly /\ [][NextMonthly]_vars

RecentNows == Nows \cup { [year |-> 2024, month |-> 5, day |-> 31] }

InitRecent ==
    /\ records \in SUBSET SummaryPool
    /\ categories = Categories
    /\ tz \in TimeZones
    /\ now \in RecentNows
    /\ req = Idle
    /\ dbq = Idle
    /\ resp = Idle
    /\ InitAccounts

NextRecent == RecentAverage \/ Finish
SpecRecent == InitRecent /\ [][NextRecent]_vars

\* Eight records worth 10, 50, 5, 90, 20, 90, 1 and 30 USD between 1 March
\* and 20 May 2024, three of them on the same day, a 20 USD one on
\* 29 February 2024, another user's, and one on 1 October 2024.
Top5Pool ==
    { Rec(21, 1, 1,    1, DayNumber(2024, 5, 15), "USD", 10000),
      Rec(22, 1, 2,    2, DayNumber(2024, 5, 10), "KHR", 200000000),
      Rec(23, 1, Null, 3, DayNumber(2024, 3, 1),  "USD", 5000),
      Rec(24, 1, 1,    1, DayNumber(2024, 4, 5),  "USD", 90000),
      Rec(25, 1, 2,    2, DayNumber(2024, 4, 20), "KHR", 80000000),
      Rec(26, 1, 1,    3, DayNumber(2024, 4, 5),  "KHR", 360000000),
      Rec(27, 1, Null, 1, DayNumber(2024, 5, 20), "KHR", 4000000),
      Rec(28, 1, 2,    2, DayNumber(2024, 4, 5),  "USD", 30000),
      Rec(29, 1, 1,    3, DayNumber(2024, 2, 29), "USD", 20000),
      Rec(30, 2, 3,    1, DayNumber(2024, 5, 1),  "USD", 100000),
      Rec(31, 1, 1,    2, DayNumber(2024, 10, 1), "USD", 7000) }

Top5Nows == { [year |-> 2024, month |-> 5, day |-> 15],
              [year |-> 2024, month |-> 5, day |-> 31],
              [year |-> 2025, month |-> 1, day |-> 15] }

InitTop5 ==
    /\ records \in SUBSET Top5Pool
    /\ categories = Categories
    /\ tz \in TimeZones
    /\ now \in Top5Nows
    /\ req = Idle
    /\ dbq = Idle
    /\ resp = Idle
    /\ InitAccounts

Top5Queries == { [displayCurrency |-> c] : c \in {"", "USD", "KHR", "EUR"} }

Top5 == \E u \in Users, q \in Top5Queries : getTop5Expenses(u, q)

NextTop5 == Top5 \/ Finish
SpecTop5 == InitTop5 /\ [][NextTop5]_vars

-----------------------------------------------------------------------------
(* The category API.  A handler runs up to its first query, which reads    *)
(* the table, and is suspended there; what follows the await (the checks,  *)
(* the write, the response) runs when the handler is resumed, and requests *)
(* on other connections may run in between.                                *)

\* A string parameter that the request body does not have.
Missing == "<undefined>"

\* `!s` for a string parameter.
Falsy(s) == s = Missing \/ s = ""

\* /^#[0-9A-Fa-f]{6}$/.test(color), on the colors requests are made with.
HexColors == {"#ff5722", "#2196f3", "#4caf50", "#808080"}
IsHexColor(color) == color \in HexColors

\* a ?? b
Coalesce(a, b) == IF a = Missing THEN b ELSE a

\* The null that a query for one row returns when there is none.
NoRow == [id |-> Null]

\* db.Category.findOne({ where: { name, userId } }): a matching row, or null.
FindCategory(name, userId) ==
    LET found == { c \in categories : c.name = name /\ c.userId = userId }
    IN  IF found = {} THEN { NoRow } ELSE found

\* db.Category.findByPk(id)
CategoryByPk(id) ==
    LET found == { c \in categories : c.id = id }
    IN  IF found = {} THEN NoRow ELSE CHOOSE c \in found : TRUE

Respond(conn, r) ==
    /\ req' = pending[conn]
    /\ resp' = r
    /\ pending' = [pending EXCEPT ![conn] = Idle]

Rejected(op, status, error) == [op |-> op, status |-> status, error |-> error]

\* POST /api/categories, up to `await db.Category.findOne`.
createCategoryBegin(conn, userId, body) ==
    /\ pending[conn] = Idle
    /\ IF Falsy(body.name) \/ ~IsHexColor(body.color)
          THEN /\ resp.op = "idle"
               /\ req' = [op |-> "createCategory", userId |-> userId, body |-> body]
               /\ resp' = Rejected("createCategory", 400,
                                   "Invalid category data. Expect name and hex color.")
               /\ UNCHANGED pending
          ELSE /\ \E existing \in FindCategory(body.name, userId) :
                     pending' = [pending EXCEPT ![conn] =
                                   [op |-> "createCategory", userId |-> userId,
                                    body |-> body, existing |-> existing]]
               /\ UNCHANGED <<req, resp>>
    /\ UNCHANGED <<records, categories, tz, now, dbq, users, clock, mail, redeemed, seq>>

\* POST /api/categories, from the existence check on.
createCategoryEnd(conn) ==
    LET p == pending[conn]
    IN  /\ p.op = "createCategory"
        /\ resp.op = "idle"
        /\ IF p.existing # NoRow
              THEN /\ Respond(conn, Rejected("createCategory", 409, "Category already exists"))
                   /\ UNCHANGED <<categories, seq>>
              ELSE LET category == [id |-> seq.category, userId |-> p.userId,
                                    name |-> p.body.name, color |-> p.body.color]
                   IN  /\ categories' = categories \cup {category}
                       /\ seq' = [seq EXCEPT !.category = @ + 1]
                       /\ Respond(conn, [op |-> "createCategory", status |-> 201,
                                          category |-> category])
        /\ UNCHANGED <<records, tz, now, dbq, users, clock, mail, redeemed>>

\* PUT /api/categories/:id, up to `await db.Category.findByPk`.
updateCategoryBegin(conn, userId, id, body) ==
    /\ pending[conn] = Idle
    /\ pending' = [pending EXCEPT ![conn] =
                     [op |-> "updateCategory", userId |-> userId, id |-> id,
                      body |-> body, categoryExists |-> CategoryByPk(id)]]
    /\ UNCHANGED <<records, categories, tz, now, req, dbq, resp,
                   users, clock, mail, redeemed, seq>>

\* category.save(): an UPDATE of the attributes that were changed, on the
\* row with the instance's key; no row, no change.
SaveCategory(old, name, color) ==
    { IF c.id = old.id
         THEN [c EXCEPT !.name  = IF name # old.name THEN name ELSE @,
                        !.color = IF color # old.color THEN color ELSE @]
         ELSE c : c \in categories }

\* PUT /api/categories/:id, from the not-found check on.
updateCategoryEnd(conn) ==
    LET p   == pending[conn]
        old == p.categoryExists
    IN  /\ p.op = "updateCategory"
        /\ resp.op = "idle"
        /\ IF old = NoRow
              THEN /\ Respond(conn, Rejected("updateCategory", 404, "Category not found"))
                   /\ UNCHANGED categories
              ELSE IF old.userId # p.userId
              THEN /\ Respond(conn, Rejected("updateCategory", 403,
                              "You don't have permission to update this category"))
                   /\ UNCHANGED categories
              ELSE IF ~Falsy(p.body.color) /\ ~IsHexColor(p.body.color)
              THEN /\ Respond(conn, Rejected("updateCategory", 400, "Invalid hex color format"))
                   /\ UNCHANGED categories
              ELSE LET name  == Coalesce(p.body.name, old.name)
                       color == Coalesce(p.body.color, old.color)
                   IN  /\ categories' = SaveCategory(old, name, color)
                       /\ Respond(conn, [op |-> "updateCategory", status |-> 200,
                                          category |-> [old EXCEPT !.name = name,
                                                                   !.color = color]])
        /\ UNCHANGED <<records, tz, now, dbq, users, clock, mail, redeemed, seq>>

\* DELETE /api/categories/:id, up to `await db.Category.findByPk`.
deleteCategoryBegin(conn, userId, id) ==
    /\ pending[conn] = Idle
    /\ pending' = [pending EXCEPT ![conn] =
                     [op |-> "deleteCategory", userId |-> userId, id |-> id,
                      categoryExists |-> CategoryByPk(id)]]
    /\ UNCHANGED <<records, categories, tz, now, req, dbq, resp,
                   users, clock, mail, redeemed, seq>>

\* Category.hasMany(Record, { onDelete: 'SET NULL' }): the records of a
\* deleted category lose their reference.
SetNull(id) ==
    { IF r.categoryId = id THEN [r EXCEPT !.categoryId = Null] ELSE r : r \in records }

\* DELETE /api/categories/:id, from the not-found check on.
deleteCategoryEnd(conn) ==
    LET p   == pending[conn]
        old == p.categoryExists
    IN  /\ p.op = "deleteCategory"
        /\ resp.op = "idle"
        /\ IF old = NoRow
              THEN /\ Respond(conn, Rejected("deleteCategory", 404, "Category not found"))
                   /\ UNCHANGED <<categories, records>>
              ELSE IF old.userId # p.userId
              THEN /\ Respond(conn, Rejected("deleteCategory", 403,
                              "You don't have permission to delete this category"))
                   /\ UNCHANGED <<categories, records>>
              ELSE /\ categories' = { c \in categories : c.id # old.id }
                   /\ records' = SetNull(old.id)
                   /\ Respond(conn, [op |-> "deleteCategory", status |-> 200,
                                      message |-> "Category deleted"])
        /\ UNCHANGED <<tz, now, dbq, users, clock, mail, redeemed, seq>>

-----------------------------------------------------------------------------
(* The record API: POST, PUT, DELETE and GET /api/records/:id.             *)

\* db.Record.findByPk(id)
RecordByPk(id) ==
    LET found == { r \in records : r.id = id }
    IN  IF found = {} THEN NoRow ELSE CHOOSE r \in found : TRUE

\* include: [{ model: db.Category, attributes: ['id', 'name', 'color'] }]
WithCategory(r) == [record |-> r, Category |-> CategoryByPk(r.categoryId)]

\* `!x` for a number or a number-like identifier: undefined, null and 0.
FalsyNum(x) == x \in {Undefined, Null, 0}

\* The column definitions of the Record model and its foreign key to User:
\* what INSERT and UPDATE refuse.
ValidRow(r) ==
    /\ r.title \notin {Undefined, Null}
    /\ r.date \notin {Undefined, Null}
    /\ r.currency \in {"USD", "KHR"}
    /\ r.amount \notin {Undefined, Null}
    /\ \E u \in users : u.id = r.userId

\* The category a name stands for among the user's own.
Resolve(category, userId) ==
    { [id |-> c.id, found |-> c # NoRow] : c \in FindCategory(category, userId) }

CategoryNotFound(category) == <<"Category \"", category, "\" not found. Please create it first">>

\* POST /api/records
createRecord(userId, body) ==
    LET op == "createRecord"
    IN  /\ resp.op = "idle"
        /\ req' = [op |-> op, userId |-> userId, body |-> body]
        /\ IF FalsyNum(body.title) \/ FalsyNum(body.date) \/ Falsy(body.currency)
                \/ FalsyNum(body.amount)
              THEN /\ resp' = Rejected(op, 400,
                          <<"Missing required fields: title, date, currency, amount">>)
                   /\ UNCHANGED <<records, seq>>
              ELSE \E c \in (IF Falsy(body.category) THEN { [id |-> Null, found |-> TRUE] }
                              ELSE Resolve(body.category, userId)) :
                     IF ~c.found
                       THEN /\ resp' = Rejected(op, 400, CategoryNotFound(body.category))
                            /\ UNCHANGED <<records, seq>>
                       ELSE LET record == [id |-> seq.record, userId |-> userId,
                                           categoryId |-> c.id, title |-> body.title,
                                           date |-> body.date, currency |-> body.currency,
                                           amount |-> body.amount]
                            IN  IF ValidRow(record)
                                  THEN /\ records' = records \cup {record}
                                       /\ seq' = [seq EXCEPT !.record = @ + 1]
                                       /\ resp' = [op |-> op, status |-> 201,
                                                   data |-> WithCategory(record)]
                                  ELSE /\ resp' = Rejected(op, 400, <<"Error creating record: ">>)
                                       /\ UNCHANGED <<records, seq>>
        /\ UNCHANGED <<categories, tz, now, dbq, users, clock, pending, mail, redeemed>>

\* An update that lets everybody in.
MayAccessAnyRecord(r, userId) == TRUE

\* recordExists.userId !== userId
MayAccess(r, userId) == r.userId = userId

\* updateData: the fields the body has.
UpdateData(record, body, categoryId) ==
    [record EXCEPT !.title      = IF body.title # Undefined THEN body.title ELSE @,
                   !.date       = IF body.date # Undefined THEN body.date ELSE @,
                   !.currency   = IF body.currency # Missing THEN body.currency ELSE @,
                   !.amount     = IF body.amount # Undefined THEN body.amount ELSE @,
                   !.categoryId = IF body.category # Missing THEN categoryId ELSE @]

\* PUT /api/records/:id.  An empty category name stands for null and ''.
updateRecord(userId, id, body) ==
    LET op     == "updateRecord"
        record == RecordByPk(id)
    IN  /\ resp.op = "idle"
        /\ req' = [op |-> op, userId |-> userId, id |-> id, body |-> body]
        /\ IF record = NoRow
              THEN /\ resp' = Rejected(op, 404, <<"Record not found">>)
                   /\ UNCHANGED records
              ELSE IF ~MayAccess(record, userId)
              THEN /\ resp' = Rejected(op, 403,
                                       <<"You don't have permission to update this record">>)
                   /\ UNCHANGED records
              ELSE \E c \in (IF body.category = Missing
                                THEN { [id |-> record.categoryId, found |-> TRUE] }
                              ELSE IF body.category = ""
                                THEN { [id |-> Null, found |-> TRUE] }
                              ELSE Resolve(body.category, userId)) :
                     IF ~c.found
                       THEN /\ resp' = Rejected(op, 400, CategoryNotFound(body.category))
                            /\ UNCHANGED records
                       ELSE LET updated == UpdateData(record, body, c.id)
                            IN  IF ValidRow(updated)
                                  THEN /\ records' = (records \ {record}) \cup {updated}
                                       /\ resp' = [op |-> op, status |-> 200,
                                                   data |-> WithCategory(updated)]
                                  ELSE /\ resp' = Rejected(op, 500, <<"err.message">>)
                                       /\ UNCHANGED records
        /\ UNCHANGED <<categories, tz, now, dbq, accounts>>

\* DELETE /api/records/:id
deleteRecord(userId, id) ==
    LET op     == "deleteRecord"
        record == RecordByPk(id)
    IN  /\ resp.op = "idle"
        /\ req' = [op |-> op, userId |-> userId, id |-> id]
        /\ IF record = NoRow
              THEN /\ resp' = Rejected(op, 404, <<"Record not found">>)
                   /\ UNCHANGED records
              ELSE IF ~MayAccess(record, userId)
              THEN /\ resp' = Rejected(op, 403,
                                       <<"You don't have permission to delete this record">>)
                   /\ UNCHANGED records
              ELSE /\ records' = records \ {record}
                   /\ resp' = [op |-> op, status |-> 200, message |-> "Record deleted."]
        /\ UNCHANGED <<categories, tz, now, dbq, accounts>>

\* GET /api/records/:id
findRecordById(userId, id) ==
    LET op     == "findRecordById"
        record == RecordByPk(id)
    IN  /\ resp.op = "idle"
        /\ req' = [op |-> op, userId |-> userId, id |-> id]
        /\ IF record = NoRow
              THEN resp' = Rejected(op, 404, <<"Record not found">>)
              ELSE IF ~MayAccess(record, userId)
              THEN resp' = Rejected(op, 403, <<"You don't have permission to access this record">>)
              ELSE resp' = [op |-> op, status |-> 200, data |-> WithCategory(record)]
        /\ UNCHANGED <<records, categories, tz, now, dbq, accounts>>

Green == "#4caf50"
CreateBodies ==
    { [name |-> "Gas", color |-> Green], [name |-> Missing, color |-> Green],
      [name |-> "Gas", color |-> "red"] }
UpdateBodies ==
    { [name |-> "Food", color |-> Missing], [name |-> "Gas", color |-> Missing],
      [name |-> Missing, color |-> "red"] }
CategoryIds == {1, 9}

\* At most this many categories are created (the key sequence is unbounded).
MaxCreated == 1

CreateCategory ==
    \/ \E conn \in Conns, u \in Users, b \in CreateBodies :
          seq.category < FirstIds.category + MaxCreated /\ createCategoryBegin(conn, u, b)
    \/ \E conn \in Conns : createCategoryEnd(conn)

UpdateCategory ==
    \/ \E conn \in Conns, u \in Users, id \in CategoryIds, b \in UpdateBodies :
          updateCategoryBegin(conn, u, id, b)
    \/ \E conn \in Conns : updateCategoryEnd(conn)

DeleteCategory ==
    \/ \E conn \in Conns, u \in Users, id \in CategoryIds : deleteCategoryBegin(conn, u, id)
    \/ \E conn \in Conns : deleteCategoryEnd(conn)

InitCategories ==
    /\ records = { r \in Pool : r.id \in {1, 4} }
    /\ categories = { c \in Categories : c.id \in {1, 3} }
    /\ tz = 0
    /\ now = [year |-> 2020, month |-> 1, day |-> 15]
    /\ req = Idle
    /\ dbq = Idle
    /\ resp = Idle
    /\ InitAccounts

NextCategories == CreateCategory \/ UpdateCategory \/ DeleteCategory \/ Finish
SpecCategories == InitCategories /\ [][NextCategories]_vars

RecordBody(title, date, currency, amount, category) ==
    [title |-> title, date |-> date, currency |-> currency, amount |-> amount,
     category |-> category]

\* 12.34 USD without a category; 0 USD; -5 KHR in Food; an unknown category,
\* also with amount 0 and without a title; a currency outside the ENUM.
CreateRecordBodies ==
    { RecordBody(1, 10, "USD", 12340, Missing),
      RecordBody(1, 10, "USD", 0, Missing),
      RecordBody(1, 10, "KHR", -5000, "Food"),
      RecordBody(1, 10, "USD", 12340, "Nope"),
      RecordBody(1, 10, "USD", 0, "Nope"),
      RecordBody(Undefined, 10, "USD", 12340, "Nope"),
      RecordBody(1, 10, "EUR", 12340, "Gas") }

\* amount 0; amount -5; an unknown category along with a new title and
\* amount; no category any more; category Gas; a currency outside the ENUM.
UpdateRecordBodies ==
    { RecordBody(Undefined, Undefined, Missing, 0, Missing),
      RecordBody(Undefined, Undefined, Missing, -5000, Missing),
      RecordBody(3, Undefined, Missing, 7000, "Nope"),
      RecordBody(Undefined, Undefined, Missing, Undefined, ""),
      RecordBody(Undefined, Undefined, Missing, Undefined, "Gas"),
      RecordBody(Undefined, Undefined, "EUR", Undefined, Missing) }

RecordIds == {1, 5, 9, FirstIds.record}

\* At most this many records are created (the key sequence is unbounded).
MaxRecordsCreated == 1

CreateRecord ==
    \E u \in Users, b \in CreateRecordBodies :
        seq.record < FirstIds.record + MaxRecordsCreated /\ createRecord(u, b)
UpdateRecord == \E u \in Users, id \in RecordIds, b \in UpdateRecordBodies : updateRecord(u, id, b)
DeleteRecord == \E u \in Users, id \in RecordIds : deleteRecord(u, id)
FindRecord == \E u \in Users, id \in RecordIds : findRecordById(u, id)

InitRecords ==
    /\ records = { r \in Pool : r.id \in {1, 5} }
    /\ categories = Categories
    /\ tz = 0
    /\ now = [year |-> 2020, month |-> 1, day |-> 15]
    /\ req = Idle
    /\ dbq = Idle
    /\ resp = Idle
    /\ InitAccounts

NextRecords == CreateRecord \/ UpdateRecord \/ DeleteRecord \/ FindRecord \/ Finish
SpecRecords == InitRecords /\ [][NextRecords]_vars

-----------------------------------------------------------------------------
(* GET /api/records as its two queries: the handler is suspended at        *)
(* `await db.Record.count` and at `await db.Record.findAll`, and other     *)
(* requests may run in between.                                            *)

\* Up to the count query (lines 127-234).
getAllRecordsCount(conn, userId, q) ==
    /\ pending[conn] = Idle
    /\ pending' = [pending EXCEPT ![conn] =
                     [op |-> "getAllRecords", userId |-> userId, query |-> q,
                      total |-> Count(BuildWhere(userId, q))]]
    /\ UNCHANGED <<records, categories, tz, now, req, dbq, resp,
                   users, clock, mail, redeemed, seq>>

\* From the findAll query on (lines 235-266).
getAllRecordsFindAll(conn) ==
    LET p          == pending[conn]
        q          == p.query
        page       == OrDefault(ParseInt(q.page), 1)
        pageSize   == OrDefault(ParseInt(q.pageSize), 10)
        sort       == SortDirection(q.sort)
        orderField == OrderField(q.sortBy)
        where      == BuildWhere(p.userId, q)
        limit      == pageSize
        offset     == (page - 1) * pageSize
    IN  /\ p.op = "getAllRecords"
        /\ resp.op = "idle"
        /\ req' = [op |-> "getAllRecords", userId |-> p.userId, query |-> q]
        /\ pending' = [pending EXCEPT ![conn] = Idle]
        /\ dbq' = [op |-> "findAll", where |-> where, limit |-> limit,
                   offset |-> offset, order |-> <<orderField, sort>>]
        /\ \/ /\ limit < 0 \/ offset < 0
              /\ resp' = [op |-> "getAllRecords", status |-> 500]
           \/ \E rows \in FindAll(where, orderField, sort, limit, offset) :
                 resp' = [op |-> "getAllRecords", status |-> 200,
                          meta |-> [totalItems |-> p.total,
                                    page       |-> page,
                                    pageSize   |-> pageSize,
                                    totalPages |-> CeilDiv(p.total, pageSize),
                                    sortBy     |-> orderField,
                                    sort       |-> sort],
                          data |-> rows]
        /\ UNCHANGED <<records, categories, tz, now, users, clock, mail, redeemed, seq>>

RaceQueries ==
    { [DefaultQuery EXCEPT !.page = p, !.pageSize = ps] :
        p \in {Undefined, 1, 2}, ps \in {Undefined, 1, 2} }

ListCount == \E conn \in Conns, u \in Users, q \in RaceQueries : getAllRecordsCount(conn, u, q)
ListFindAll == \E conn \in Conns : getAllRecordsFindAll(conn)

InitRace ==
    /\ records \in SUBSET { r \in Pool : r.id \in {1, 2, 5} }
    /\ categories = Categories
    /\ tz = 0
    /\ now = [year |-> 2020, month |-> 1, day |-> 15]
    /\ req = Idle
    /\ dbq = Idle
    /\ resp = Idle
    /\ InitAccounts

NextRace == ListCount \/ ListFindAll \/ CreateRecord \/ DeleteRecord \/ Finish
SpecRace == InitRace /\ [][NextRace]_vars

-----------------------------------------------------------------------------
(* Accounts: password reset and account deletion.                          *)

HourMs == 3600000

\* User.findOne({ where: { email } })
UserByEmail(email) ==
    LET found == { u \in users : u.email = email }
    IN  IF found = {} THEN NoRow ELSE CHOOSE u \in found : TRUE

\* User.findByPk(id)
UserByPk(id) ==
    LET found == { u \in users : u.id = id }
    IN  IF found = {} THEN NoRow ELSE CHOOSE u \in found : TRUE

\* POST /api/users/forgot-password.  crypto.randomBytes(32) is a value never
\* drawn before; the message handed to the mail transport is recorded
\* whether or not the transport delivers it.
forgotPassword(email) ==
    LET op         == "forgotPassword"
        user       == UserByEmail(email)
        resetToken == seq.token
    IN  /\ resp.op = "idle"
        /\ req' = [op |-> op, body |-> [email |-> email]]
        /\ seq' = [seq EXCEPT !.token = @ + 1]
        /\ IF user # NoRow
              THEN /\ users' = (users \ {user}) \cup
                                 { [user EXCEPT !.resetPasswordToken = resetToken,
                                                !.resetPasswordExpires = clock + HourMs] }
                   /\ mail' = mail \cup { [to |-> user.email, userId |-> user.id,
                                            token |-> resetToken, at |-> clock] }
                   /\ \/ resp' = [op |-> op, status |-> 200]
                      \/ resp' = Rejected(op, 500, "Error processing password reset request")
              ELSE /\ resp' = [op |-> op, status |-> 200]
                   /\ UNCHANGED <<users, mail>>
        /\ UNCHANGED <<records, categories, tz, now, dbq, clock, pending, redeemed>>

\* A lookup by token alone.
FindByResetTokenAnyTime(token) ==
    { u \in users : u.resetPasswordToken = token }

\* User.findOne({ where: { resetPasswordToken: token,
\*                         resetPasswordExpires: { [Op.gt]: Date.now() } } })
FindByResetToken(token) ==
    { u \in users : u.resetPasswordToken = token /\ u.resetPasswordExpires > clock }

\* POST /api/users/reset-password.  A body without a token makes the query
\* throw, and one without a password makes `newPassword.length` throw.
resetPassword(token, newPassword) ==
    LET op    == "resetPassword"
        found == FindByResetToken(token)
    IN  /\ resp.op = "idle"
        /\ req' = [op |-> op, body |-> [token |-> token, newPassword |-> newPassword]]
        /\ IF token = Undefined
              THEN /\ resp' = Rejected(op, 500, "Error resetting password")
                   /\ UNCHANGED <<users, redeemed>>
              ELSE IF found = {}
              THEN /\ resp' = Rejected(op, 400,
                                       "Reset failed. The link may be invalid or expired.")
                   /\ UNCHANGED <<users, redeemed>>
              ELSE IF newPassword = Missing
              THEN /\ resp' = Rejected(op, 500, "Error resetting password")
                   /\ UNCHANGED <<users, redeemed>>
              ELSE IF Len(newPassword) < 6
              THEN /\ resp' = Rejected(op, 400, "Password must be at least 6 characters long")
                   /\ UNCHANGED <<users, redeemed>>
              ELSE \E user \in found :
                     /\ users' = (users \ {user}) \cup
                                   { [user EXCEPT !.password = Hash(newPassword),
                                                  !.resetPasswordToken = Null,
                                                  !.resetPasswordExpires = Null] }
                     /\ redeemed' = redeemed \cup {token}
                     /\ resp' = [op |-> op, status |-> 200,
                                 message |-> "Password reset successful"]
        /\ UNCHANGED <<records, categories, tz, now, dbq, clock, pending, mail, seq>>

\* Time passes.
Tick(ms) ==
    /\ clock' = clock + ms
    /\ UNCHANGED <<records, categories, tz, now, req, dbq, resp,
                   users, pending, mail, redeemed, seq>>

\* A destroy whose condition matches nothing.
DestroyNothing(rows, id) == rows

\* Model.destroy({ where: { userId: id } })
DestroyWhereUser(rows, id) == { r \in rows : r.userId # id }

\* DELETE /api/users/account; id is the user id of the JWT.
deleteAccount(id) ==
    LET op   == "deleteAccount"
        user == UserByPk(id)
    IN  /\ resp.op = "idle"
        /\ req' = [op |-> op, userId |-> id]
        /\ IF user = NoRow
              THEN /\ resp' = Rejected(op, 404, "User not found")
                   /\ UNCHANGED <<records, categories, users>>
              ELSE LET gone == { c.id : c \in categories } \
                                 { c.id : c \in DestroyWhereUser(categories, id) }
                   IN  /\ records' = { IF r.categoryId \in gone
                                          THEN [r EXCEPT !.categoryId = Null] ELSE r :
                                        r \in DestroyWhereUser(records, id) }
                       /\ categories' = DestroyWhereUser(categories, id)
                       /\ users' = users \ {user}
                       /\ resp' = [op |-> op, status |-> 200,
                                   message |-> "Account and related data deleted successfully"]
        /\ UNCHANGED <<tz, now, dbq, clock, pending, mail, redeemed, seq>>

Emails == {"alice@example.com", "bob@example.com", "nobody@example.com"}

\* At most this many reset tokens are drawn, and the clock stops after this
\* many half hours.
MaxTokens == 3
MaxHalfHours == 3

Tokens == {Undefined, Null} \cup (FirstIds.token .. FirstIds.token + MaxTokens - 1)
NewPasswords == {Missing, "short", "secret9"}

ForgotPassword ==
    \E e \in Emails : seq.token < FirstIds.token + MaxTokens /\ forgotPassword(e)
ResetPassword == \E t \in Tokens, p \in NewPasswords : resetPassword(t, p)
HalfHour == clock < MaxHalfHours * (HourMs \div 2) /\ Tick(HourMs \div 2)
DeleteAccount == \E u \in Users : deleteAccount(u)

InitAccountsSpec ==
    /\ records = { r \in Pool : r.id \in {1, 4, 5} }
    /\ categories = Categories
    /\ tz = 0
    /\ now = [year |-> 2020, month |-> 1, day |-> 15]
    /\ req = Idle
    /\ dbq = Idle
    /\ resp = Idle
    /\ InitAccounts

NextAccounts == ForgotPassword \/ ResetPassword \/ HalfHour \/ DeleteAccount \/ Finish
SpecAccounts == InitAccountsSpec /\ [][NextAccounts]_vars

\* The four read operations over one store.
InitReads ==
    /\ records \in SUBSET { r \in SummaryPool : r.id \in {11, 12, 13, 14, 16} }
    /\ categories = Categories
    /\ tz \in TimeZones
    /\ now = [year |-> 2024, month |-> 4, day |-> 30]
    /\ req = Idle
    /\ dbq = Idle
    /\ resp = Idle
    /\ InitAccounts

NextReads == ListSorted \/ MonthlySummary \/ RecentAverage \/ Top5 \/ Finish
SpecReads == InitReads /\ [][NextReads]_vars

InitConvert ==
    /\ records = {}
    /\ categories = Categories
    /\ tz \in TimeZones
    /\ now = [year |-> 2024, month |-> 4, day |-> 30]
    /\ req = Idle
    /\ dbq = Idle
    /\ resp = Idle
    /\ InitAccounts

Convert == \E a \in TripAmounts, c \in {"USD", "KHR"} : RoundTrip(a, c)

NextConvert == Convert \/ Finish
SpecConvert == InitConvert /\ [][NextConvert]_vars

Next == ListAmount \/ ListPaging \/ ListSorted \/ ListFiltered \/ Finish
Spec == Init /\ [][Next]_vars

-----------------------------------------------------------------------------
(* Properties of the listing.                                              *)

SeqToSet(s) == { s[i] : i \in 1..Len(s) }

Listed == req.op = "getAllRecords" /\ resp.op = "getAllRecords"
Answered == Listed /\ resp.status = 200

\* The currency a threshold is expressed in.
ThresholdCurrency(q) == IF q.amountCurrency = "KHR" THEN "KHR" ELSE "USD"

\* An amount in USD at 1 USD = 4000 KHR, as a count of 1/4000 thousandths.
InUsd(amount, currency) == IF currency = "KHR" THEN amount ELSE amount * 4000

\* The record's USD value lies within the USD value of [minAmount, maxAmount].
InUsdRange(r, q) ==
    /\ q.minAmount # Undefined =>
          InUsd(r.amount, r.currency) >= InUsd(q.minAmount, ThresholdCurrency(q))
    /\ q.maxAmount # Undefined =>
          InUsd(r.amount, r.currency) <= InUsd(q.maxAmount, ThresholdCurrency(q))

OnlyAmountFilter(q) ==
    /\ q.categoryId = Undefined /\ q.startDate = Undefined /\ q.endDate = Undefined
    /\ q.page = Undefined /\ q.pageSize = Undefined

\* C1: with only an amount range supplied, a record of the caller is listed
\* exactly when its amount, converted to USD at 1 USD = 4000 KHR, lies within
\* the range converted to USD; minAmount = 100 USD lists a KHR record of
\* 400000 and leaves out one of 399999.99.
C1_AmountRangeInUsd ==
    (Answered /\ OnlyAmountFilter(req.query)) =>
        /\ \A r \in records :
              r.userId = req.userId =>
                 (r \in SeqToSet(resp.data) <=> InUsdRange(r, req.query))
        /\ (req.query.minAmount = 100000 /\ ThresholdCurrency(req.query) = "USD"
            /\ req.query.maxAmount = Undefined) =>
              \A r \in records :
                 (r.userId = req.userId /\ r.currency = "KHR") =>
                    /\ r.amount = 400000000 => r \in SeqToSet(resp.data)
                    /\ r.amount = 399999990 => r \notin SeqToSet(resp.data)

\* C2: with only minAmount each currency branch has a lower and no upper
\* bound, with only maxAmount an upper and no lower bound, and with neither
\* the filter carries no amount predicate and no record of the caller is
\* left out on account of its amount or currency.
C2_OpenBounds ==
    Listed =>
        LET q == req.query
            w == dbq.where
            branches == IF Len(w.and) = 0 THEN {} ELSE SeqToSet(w.and[1])
        IN  /\ (q.minAmount # Undefined /\ q.maxAmount = Undefined) =>
                  /\ Len(w.and) = 1
                  /\ { b.currency : b \in branches } = {"USD", "KHR"}
                  /\ \A b \in branches : Len(b.gte) = 1 /\ Len(b.lte) = 0
            /\ (q.minAmount = Undefined /\ q.maxAmount # Undefined) =>
                  /\ Len(w.and) = 1
                  /\ { b.currency : b \in branches } = {"USD", "KHR"}
                  /\ \A b \in branches : Len(b.gte) = 0 /\ Len(b.lte) = 1
            /\ (q.minAmount = Undefined /\ q.maxAmount = Undefined) =>
                  /\ w.and = <<>>
                  /\ (resp.status = 200 /\ OnlyAmountFilter(q)) =>
                        \A r \in records :
                           r.userId = req.userId => r \in SeqToSet(resp.data)

C2_Witness ==
    /\ Answered
    /\ req.query.minAmount = Undefined
    /\ req.query.maxAmount = Undefined
    /\ \E r \in SeqToSet(resp.data) : r.currency = "USD"
    /\ \E r \in SeqToSet(resp.data) : r.currency = "KHR"

\* n is the ceiling of a / b (b # 0).
IsCeiling(n, a, b) ==
    IF b > 0 THEN (n - 1) * b < a /\ a <= n * b
             ELSE (n - 1) * b > a /\ a >= n * b

\* C3: totalPages is the ceiling of totalItems / pageSize for the effective
\* pageSize, and it is 0 exactly when totalItems is 0.
C3_TotalPages ==
    Answered =>
        /\ IsCeiling(resp.meta.totalPages, resp.meta.totalItems, resp.meta.pageSize)
        /\ resp.meta.totalPages = 0 <=> resp.meta.totalItems = 0

\* C4 as stated: a listing request whose pageSize is zero is not answered.
C4_ZeroPageSizeRejected ==
    (Listed /\ req.query.pageSize = 0) => resp.status # 200

\* C4, amended: a pageSize of zero is replaced by the default 10 and the
\* request is answered like one without pageSize; the pageSize of a response
\* is never 0 and its totalPages is never Infinity or NaN.
C4_ZeroPageSizeDefaulted ==
    Listed =>
        /\ req.query.pageSize = 0 => dbq.limit = 10
        /\ resp.status = 200 =>
              /\ resp.meta.pageSize # 0
              /\ resp.meta.totalPages \notin {Infinity, NaN}
              /\ req.query.pageSize = 0 => resp.meta.pageSize = 10

C4_Witness ==
    /\ Answered
    /\ req.query.pageSize = 0
    /\ resp.meta.pageSize = 10
    /\ resp.meta.totalItems > 0
    /\ resp.meta.totalPages = 1

\* C5: the effective page is at least 1 (1 when absent) and the offset handed
\* to the storage is (page - 1) * pageSize and never negative.
C5_OffsetNonNegative ==
    Listed =>
        LET page     == OrDefault(ParseInt(req.query.page), 1)
            pageSize == OrDefault(ParseInt(req.query.pageSize), 10)
        IN  /\ page >= 1
            /\ req.query.page = Undefined => page = 1
            /\ dbq.offset = (page - 1) * pageSize
            /\ dbq.offset >= 0

\* The filters of a request read on calendar days and USD values.
SatisfiesFilters(r, q) ==
    /\ q.categoryId # Undefined => r.categoryId = q.categoryId
    /\ q.startDate # Undefined => r.date >= q.startDate
    /\ q.endDate # Undefined => r.date <= q.endDate
    /\ InUsdRange(r, q)

WholeList(q) == q.page = Undefined /\ q.pageSize = Undefined

\* C6: the records listed are exactly the caller's records that satisfy the
\* category filter, the date range and the amount range together.
C6_ExactlyOwnMatching ==
    (Answered /\ WholeList(req.query)) =>
        SeqToSet(resp.data) =
            { r \in records : r.userId = req.userId /\ SatisfiesFilters(r, req.query) }

\* C7: a record dated startDate or dated endDate is within the date range.
C7_DateRangeInclusive ==
    (Answered /\ WholeList(req.query)) =>
        \A r \in records :
           ( /\ r.userId = req.userId
             /\ SatisfiesFilters(r, req.query)
             /\ r.date = req.query.startDate \/ r.date = req.query.endDate )
           => r \in SeqToSet(resp.data)

IsSorted(rows, field, dir) ==
    \A i \in 1..Len(rows) : \A j \in i..Len(rows) :
        IF dir = "DESC" THEN SortKey(rows[i], field) >= SortKey(rows[j], field)
                        ELSE SortKey(rows[i], field) <= SortKey(rows[j], field)

\* C8: the sort field is the requested one when it is id, amount, date or
\* title and id otherwise; the direction is descending only for 'desc';
\* the rows come in that order and no such request fails.
C8_SortFallback ==
    Listed =>
        LET field == IF req.query.sortBy \in {"id", "amount", "date", "title"}
                        THEN req.query.sortBy ELSE "id"
            dir   == IF req.query.sort = "desc" THEN "DESC" ELSE "ASC"
        IN  /\ dbq.order = <<field, dir>>
            /\ (req.query.page = Undefined /\ req.query.pageSize \in {Undefined, 2}) =>
                  resp.status = 200
            /\ resp.status = 200 =>
                  /\ resp.meta.sortBy = field
                  /\ resp.meta.sort = dir
                  /\ IsSorted(resp.data, field, dir)

C8_Witness ==
    /\ Answered
    /\ req.query.sortBy = "userId"
    /\ req.query.sort = "DESC"
    /\ resp.meta.sortBy = "id"
    /\ resp.meta.sort = "ASC"
    /\ Len(resp.data) = 2
    /\ resp.data[1].id < resp.data[2].id

-----------------------------------------------------------------------------
(* Properties of the summaries.                                            *)

RECURSIVE SumSet(_, _)
SumSet(S, f) ==
    IF S = {} THEN 0
    ELSE LET x == CHOOSE x \in S : TRUE IN f[x] + SumSet(S \ {x}, f)

\* The caller's records dated within the calendar month, in one currency
\* when the request names one.
RecordsOfMonth(u, y, m, c) ==
    { r \in records :
        /\ r.userId = u
        /\ r.date >= DayNumber(y, m, 1)
        /\ r.date <= DayNumber(y, m, DaysInMonth(y, m))
        /\ c \in {"USD", "KHR"} => r.currency = c }

RecordUsd == [ r \in records |-> InUsd(r.amount, r.currency) ]

MonthlyAnswered == resp.op = "getMonthlySummary" /\ resp.status = 200

RECURSIVE SumPercentages(_)
SumPercentages(entries) ==
    IF Len(entries) = 0 THEN 0
    ELSE Head(entries).percentage + SumPercentages(Tail(entries))

\* C9: the percentages of the category breakdown add up to 100 within 0.05
\* when the USD value of the month's total expenses is not zero, and each
\* is 0 when it is zero.
C9_PercentagesSumTo100 ==
    MonthlyAnswered =>
        LET grand == InUsd(resp.summary.totalExpenses.USD, "USD")
                     + InUsd(resp.summary.totalExpenses.KHR, "KHR")
            total == SumPercentages(resp.categoryBreakdown)
        IN  /\ grand # 0 => (total >= 10000 - 5 /\ total <= 10000 + 5)
            /\ grand = 0 =>
                  \A i \in 1..Len(resp.categoryBreakdown) :
                      resp.categoryBreakdown[i].percentage = 0

RecentAnswered == resp.op = "getRecentAverage" /\ resp.status = 200

\* C10: every average per day is the unrounded total divided by the days of
\* the month and rounded once, and every percentage is 100 times the
\* unrounded USD total of the category over the unrounded USD grand total,
\* rounded once.
C10_RoundedOnce ==
    /\ MonthlyAnswered =>
          LET y    == resp.summary.year
              m    == resp.summary.month
              rows == RecordsOfMonth(req.userId, y, m, resp.summary.currency)
              grand == SumSet(rows, RecordUsd)
          IN  /\ resp.summary.averagePerDay.USD =
                    RoundDiv2(SumSet({ r \in rows : r.currency = "USD" },
                                     [ r \in records |-> r.amount ]), DaysInMonth(y, m))
              /\ resp.summary.averagePerDay.KHR =
                    RoundDiv2(SumSet({ r \in rows : r.currency = "KHR" },
                                     [ r \in records |-> r.amount ]), DaysInMonth(y, m))
              /\ \A i \in 1..Len(resp.categoryBreakdown) :
                    LET e == resp.categoryBreakdown[i]
                        mine == { r \in rows : CategoryIdOf(r) = e.categoryId }
                    IN  grand > 0 =>
                           e.percentage = PercentHundredths(SumSet(mine, RecordUsd), grand)
    /\ RecentAnswered =>
          \A i \in 1..3 :
             LET e    == resp.recentMonths[i]
                 usd  == SumSet(RecordsOfMonth(req.userId, e.year, e.month, "ALL"), RecordUsd)
                 days == DaysInMonth(e.year, e.month)
             IN  /\ e.averagePerDay.USD = RoundDiv2(usd, 4000 * days)
                 /\ e.averagePerDay.KHR = RoundDiv2(usd, days)

-----------------------------------------------------------------------------
(* Properties of the monthly summary: days, validation, empty months.      *)

MonthlyRequested == req.op = "getMonthlySummary" /\ resp.op = "getMonthlySummary"

\* The calendar days of a month: 28 or 29 for February by the leap-year
\* rule, 30 for April, June, September and November, 31 otherwise.
CalendarDays(y, m) ==
    IF m = 2 THEN (IF (y % 4 = 0 /\ y % 100 # 0) \/ y % 400 = 0 THEN 29 ELSE 28)
    ELSE IF m \in {4, 6, 9, 11} THEN 30 ELSE 31

\* C11: the summary is that of the requested month and year, and its
\* averagePerDay is, for each currency, the month total of that currency as
\* reported divided by the calendar days of that month (28 or 29 for
\* February by the leap-year rule, 30 or 31 otherwise), to the cent.
C11_AveragePerDay ==
    (MonthlyRequested /\ resp.status = 200) =>
        LET days == CalendarDays(resp.summary.year, resp.summary.month)
        IN  /\ req.query.month \in 1..12 => resp.summary.month = req.query.month
            /\ req.query.year \in 2020..2030 => resp.summary.year = req.query.year
            /\ resp.summary.averagePerDay.USD =
                  RoundDiv2(resp.summary.totalExpenses.USD, days)
            /\ resp.summary.averagePerDay.KHR =
                  RoundDiv2(resp.summary.totalExpenses.KHR, days)

\* 2 USD in February 2024, one of them on the 29th, is 0.07 a day over 29
\* days (0.04 over 28 for the one on the 10th alone).
C11_Witness ==
    /\ MonthlyRequested /\ resp.status = 200
    /\ req.query.month = 2 /\ req.query.year = 2024
    /\ resp.summary.recordCount = 2
    /\ resp.summary.totalExpenses.USD = 2000
    /\ resp.summary.averagePerDay.USD = 70

\* C12: a supplied month outside 1..12 or a supplied year outside 2020..2030,
\* zero included, is answered 400 before any storage query; it is never
\* replaced by the current month or year.
C12_OutOfRangeRejected ==
    MonthlyRequested =>
        LET q        == req.query
            badMonth == q.month # Undefined /\ (q.month < 1 \/ q.month > 12)
            badYear  == q.year # Undefined /\ (q.year < 2020 \/ q.year > 2030)
        IN  (badMonth \/ badYear) => (resp.status = 400 /\ dbq = Idle)

\* C13: a request for a month in which the caller has no record (of the
\* requested currency) is answered 200 with isEmpty, recordCount 0, totals
\* and averages 0 and an empty breakdown, and a month with records is not
\* reported empty; when the reported grand total is 0 every percentage is
\* 0; no figure is NaN or Infinity.
C13_EmptyMonth ==
    MonthlyRequested =>
        /\ ( /\ req.query.month \in {Undefined} \cup (1..12)
              /\ req.query.year \in {Undefined} \cup (2020..2030) ) => resp.status = 200
        /\ resp.status = 200 =>
              LET sm   == resp.summary
                  rows == RecordsOfMonth(req.userId, sm.year, sm.month, sm.currency)
                  zero == [USD |-> 0, KHR |-> 0]
              IN  /\ rows = {} =>
                        /\ sm.isEmpty /\ sm.recordCount = 0
                        /\ sm.totalExpenses = zero /\ sm.averagePerDay = zero
                        /\ resp.categoryBreakdown = <<>>
                  /\ rows # {} => (~sm.isEmpty /\ sm.recordCount = Cardinality(rows))
                  /\ sm.totalExpenses = zero =>
                        \A i \in 1..Len(resp.categoryBreakdown) :
                            resp.categoryBreakdown[i].percentage = 0
                  /\ { sm.totalExpenses.USD, sm.totalExpenses.KHR,
                       sm.averagePerDay.USD, sm.averagePerDay.KHR }
                        \cap {NaN, Infinity} = {}
                  /\ \A i \in 1..Len(resp.categoryBreakdown) :
                        resp.categoryBreakdown[i].percentage \notin {NaN, Infinity}

\* April 2024 holds another user's record and none of the caller's, whose
\* records are all older.
C13_Witness ==
    /\ MonthlyRequested /\ resp.status = 200
    /\ req.userId = 1 /\ req.query.month = 4 /\ req.query.year = 2024
    /\ \E r \in records : r.userId = 2 /\ r.date = DayNumber(2024, 4, 10)
    /\ \E r \in records : r.userId = 1 /\ r.date = DayNumber(2024, 3, 31)
    /\ \A r \in records : r.userId = 1 => r.date < DayNumber(2024, 4, 1)
    /\ resp.summary.isEmpty
    /\ resp.summary.recordCount = 0
    /\ resp.categoryBreakdown = <<>>

-----------------------------------------------------------------------------
(* Properties of the recent average.                                       *)

PrecedingMonth(ym) ==
    IF ym.month = 1 THEN [year |-> ym.year - 1, month |-> 12]
    ELSE [year |-> ym.year, month |-> ym.month - 1]

\* The current calendar month and the two before it.
ThreeMonths ==
    LET m0 == [year |-> now.year, month |-> now.month]
    IN  << m0, PrecedingMonth(m0), PrecedingMonth(PrecedingMonth(m0)) >>

\* The USD value (over UsdDen) of the caller's records of one month.
MonthUsd(ym) == SumSet(RecordsOfMonth(req.userId, ym.year, ym.month, "ALL"), RecordUsd)

\* C14: overallAverage is the sum of the three months' USD totals divided by
\* the sum of their day counts, and that figure times 4000 in KHR, rounded
\* to the cent; it is not the mean of the three averages per day.
C14_OverallAverage ==
    RecentAnswered =>
        LET usd  == MonthUsd(ThreeMonths[1]) + MonthUsd(ThreeMonths[2])
                    + MonthUsd(ThreeMonths[3])
            days == CalendarDays(ThreeMonths[1].year, ThreeMonths[1].month)
                    + CalendarDays(ThreeMonths[2].year, ThreeMonths[2].month)
                    + CalendarDays(ThreeMonths[3].year, ThreeMonths[3].month)
        IN  /\ resp.overallAverage.USD = RoundDiv2(usd, 4000 * days)
            /\ resp.overallAverage.KHR = RoundDiv2(usd, days)

\* Months of different lengths and unequal totals: three times the overall
\* average is more than 1 KHR away from the sum of the three averages per
\* day.
C14_Witness ==
    /\ RecentAnswered
    /\ resp.recentMonths[1].recordCount > 0
    /\ resp.recentMonths[3].recordCount > 0
    /\ LET sum == resp.recentMonths[1].averagePerDay.KHR
                  + resp.recentMonths[2].averagePerDay.KHR
                  + resp.recentMonths[3].averagePerDay.KHR
       IN  3 * resp.overallAverage.KHR > sum + 1000

\* C15: whatever the day of the month, the months reported are the current
\* calendar month, the one before and the one before that, in this order
\* and with the year going down across January, and each counts the
\* caller's records from its first to its last calendar day.
C15_ThreeCalendarMonths ==
    RecentAnswered =>
        /\ Len(resp.recentMonths) = 3
        /\ \A i \in 1..3 :
              LET e == resp.recentMonths[i]
              IN  /\ e.year = ThreeMonths[i].year
                  /\ e.month = ThreeMonths[i].month
                  /\ e.monthName = monthNames[ThreeMonths[i].month]
                  /\ e.recordCount =
                        Cardinality(RecordsOfMonth(req.userId, e.year, e.month, "ALL"))

\* In January 2025: January 2025 with the record of the 1st, December 2024,
\* November 2024 with the record of the 30th.
C15_Witness ==
    /\ RecentAnswered
    /\ now.year = 2025 /\ now.month = 1
    /\ resp.recentMonths[1].year = 2025 /\ resp.recentMonths[1].month = 1
    /\ resp.recentMonths[1].recordCount = 1
    /\ resp.recentMonths[2].year = 2024 /\ resp.recentMonths[2].month = 12
    /\ resp.recentMonths[3].year = 2024 /\ resp.recentMonths[3].month = 11
    /\ resp.recentMonths[3].recordCount = 1

\* C16: in every display mode the USD total of a month is the sum of all
\* its records converted to USD and the KHR total is 4000 times that sum,
\* each rounded to the cent, so the figures of BOTH are those of USD.
C16_SingleUsdTotal ==
    RecentAnswered =>
        /\ resp.displayCurrency =
              (IF req.query.displayCurrency = "" THEN "BOTH" ELSE req.query.displayCurrency)
        /\ \A i \in 1..3 :
              LET e   == resp.recentMonths[i]
                  usd == MonthUsd([year |-> e.year, month |-> e.month])
              IN  /\ e.totalExpenses.USD = RoundDiv2(usd, 4000)
                  /\ e.totalExpenses.KHR = Round2(usd)

\* BOTH, a month with 0.004 USD twice and 584 KHR: 0.15 USD and 616 KHR.
C16_Witness ==
    /\ RecentAnswered
    /\ resp.displayCurrency = "BOTH"
    /\ \E i \in 1..3 :
          LET e == resp.recentMonths[i]
          IN  /\ e.recordCount = 3
              /\ e.rawTotals.USD > 0 /\ e.rawTotals.KHR = 584000
              /\ e.totalExpenses.USD = 150
              /\ e.totalExpenses.KHR = 616000

-----------------------------------------------------------------------------
(* Properties of the top five.                                             *)

Top5Answered ==
    req.op = "getTop5Expenses" /\ resp.op = "getTop5Expenses" /\ resp.status = 200

\* The display currency a request asks for, USD when it names none.
RequestedCurrency == IF req.query.displayCurrency = "" THEN "USD" ELSE req.query.displayCurrency

\* The place of the record with this id in a row list.
PlaceOf(rows, id) == CHOOSE i \in 1..Len(rows) : rows[i].id = id

\* The fetched row an entry of the response was made from.
RowOf(e) == dbq.result[PlaceOf(dbq.result, e.id)]

\* The rows that were fetched and are not in the response.
LeftOut == { r \in SeqToSet(dbq.result) :
               \A i \in 1..Len(resp.top5Expenses) : resp.top5Expenses[i].id # r.id }

\* C17: the response has min(5, n) entries for the n records fetched, made
\* from distinct fetched records, in non-increasing order of amount, and
\* (display currency USD or KHR) no record left out is worth more than a
\* record returned.
C17_TopFive ==
    Top5Answered =>
        LET top == resp.top5Expenses
        IN  /\ resp.totalRecords = Len(dbq.result)
            /\ Len(top) = Min2(5, Len(dbq.result))
            /\ \A i \in 1..Len(top) : \E k \in 1..Len(dbq.result) : dbq.result[k].id = top[i].id
            /\ \A i \in 1..Len(top) : \A j \in 1..Len(top) :
                  i < j => (top[i].id # top[j].id /\ top[i].amount >= top[j].amount)
            /\ RequestedCurrency \in {"USD", "KHR"} =>
                  \A r \in LeftOut : \A i \in 1..Len(top) :
                      RecordUsd[r] <= RecordUsd[RowOf(top[i])]

\* The eight records worth 10, 50, 5, 90, 20, 90, 1, 30: both records of
\* 90 come first, then 50, 30 and 20.
C17_Witness ==
    /\ Top5Answered
    /\ req.query.displayCurrency = "USD"
    /\ { r.id : r \in SeqToSet(dbq.result) } = 21..28
    /\ Len(resp.top5Expenses) = 5
    /\ { resp.top5Expenses[1].id, resp.top5Expenses[2].id } = {24, 26}
    /\ resp.top5Expenses[1].amount = 90000 /\ resp.top5Expenses[2].amount = 90000
    /\ resp.top5Expenses[3].amount = 50000
    /\ resp.top5Expenses[4].amount = 30000
    /\ resp.top5Expenses[5].amount = 20000

\* The first day of the calendar month three months before the current one.
WindowStart ==
    LET m3 == PrecedingMonth(PrecedingMonth(PrecedingMonth(
                  [year |-> now.year, month |-> now.month])))
    IN  DayNumber(m3.year, m3.month, 1)

Today == DayNumber(now.year, now.month, now.day)

\* C18: the records ranked are the caller's records dated from day 1 of the
\* calendar month three months before the current month to the current
\* day, both included.
C18_Window ==
    Top5Answered =>
        SeqToSet(dbq.result) =
            { r \in records :
                r.userId = req.userId /\ r.date >= WindowStart /\ r.date <= Today }

\* C19: the rows are fetched by descending date, and records of equal
\* converted amount (display currency USD or KHR) stay in the order they
\* were fetched in: among the entries returned, and between an entry
\* returned and a record left out at the cut.
C19_TiesKeepFetchOrder ==
    Top5Answered =>
        LET top  == resp.top5Expenses
            rows == dbq.result
        IN  /\ \A i \in 1..Len(rows) : \A j \in 1..Len(rows) :
                  i < j => rows[i].date >= rows[j].date
            /\ RequestedCurrency \in {"USD", "KHR"} =>
                  /\ \A i \in 1..Len(top) : \A j \in 1..Len(top) :
                        (i < j /\ RecordUsd[RowOf(top[i])] = RecordUsd[RowOf(top[j])])
                           => PlaceOf(rows, top[i].id) < PlaceOf(rows, top[j].id)
                  /\ \A r \in LeftOut : \A i \in 1..Len(top) :
                        RecordUsd[r] = RecordUsd[RowOf(top[i])]
                           => PlaceOf(rows, top[i].id) < PlaceOf(rows, r.id)

\* Two records worth 20 USD compete for the fifth place: the one of 20 April
\* is returned, the one of 29 February is left out; and the two records of
\* 90 of the same day come in the order the storage gave them, here the
\* one with the higher id first.
C19_Witness ==
    /\ Top5Answered
    /\ req.query.displayCurrency = "KHR"
    /\ Len(resp.top5Expenses) = 5
    /\ resp.top5Expenses[5].id = 25
    /\ \E r \in LeftOut : r.id = 29
    /\ resp.top5Expenses[1].id = 26 /\ resp.top5Expenses[2].id = 24

\* C20: a request whose displayCurrency is neither USD nor KHR is answered
\* like a USD request: every amount is the record's value in USD and the
\* ranking is by that value.
C20_UnknownCurrencyAsUsd ==
    (Top5Answered /\ req.query.displayCurrency \notin {"USD", "KHR"}) =>
        LET top == resp.top5Expenses
        IN  /\ \A i \in 1..Len(top) :
                  top[i].amount = RoundDiv2(RecordUsd[RowOf(top[i])], 4000)
            /\ \A i \in 1..Len(top) : \A j \in 1..Len(top) :
                  i < j => RecordUsd[RowOf(top[i])] >= RecordUsd[RowOf(top[j])]
            /\ \A r \in LeftOut : \A i \in 1..Len(top) :
                  RecordUsd[r] <= RecordUsd[RowOf(top[i])]

-----------------------------------------------------------------------------
(* The round trip through USD.                                             *)

\* a <= b for natural numbers without leading zeros.
BigLeq(a, b) ==
    IF Len(a) # Len(b) THEN Len(a) < Len(b) ELSE LeqDigits(a, b)

\* The natural number x / 2^e0 for a double x and e0 <= x.e.
Scaled(x, e0) ==
    IF Len(x.m) = 0 THEN <<>> ELSE FromBits(Zeros(x.e - e0) \o ToBits(x.m))

\* |x - y| <= 1/100 for doubles x and y, decided exactly.
WithinCent(x, y) ==
    LET lo == IF x.e < y.e THEN x.e ELSE y.e
        e0 == IF lo < 0 THEN lo ELSE 0
        X  == BigMul(<<100>>, Scaled(x, e0))
        Y  == BigMul(<<100>>, Scaled(y, e0))
        u  == FromBits(Zeros(-e0) \o <<1>>)
    IN  BigLeq(X, BigAdd(Y, u)) /\ BigLeq(Y, BigAdd(X, u))

Converted == resp.op = "convert"

\* C21 as stated: for every amount a and currency c in {USD, KHR}, a
\* converted to USD and back to c is within 0.01 of a.
C21_RoundTripEveryAmount ==
    Converted => WithinCent(resp.back, resp.amount)

\* 10^13 units of the currency, in thousandths.
TripLimit == PowerOfTen(16)

\* C21, amended: for every amount a of at most 10^13 units and currency c
\* in {USD, KHR}, a converted to USD with the factor 0.00025 and back to c
\* with the factor 4000 is within 0.01 of a.
C21_RoundTrip ==
    (Converted /\ BigLeq(Thousandths(req.amount), TripLimit))
        => WithinCent(resp.back, resp.amount)

\* 700 KHR comes back as 700.0000000000001: changed, and within a cent.
C21_Witness ==
    /\ Converted
    /\ req.currency = "KHR"
    /\ req.amount = [millions |-> 0, rest |-> 700000]
    /\ resp.back # resp.amount
    /\ WithinCent(resp.back, resp.amount)

-----------------------------------------------------------------------------
(* Category names.                                                         *)

\* C22: after any sequence of createCategory, updateCategory and
\* deleteCategory calls by any users, interleaved calls included, no two
\* categories of the same owner have the same name.
C22_NamesUniquePerOwner ==
    \A c \in categories, d \in categories :
        (c.userId = d.userId /\ c.name = d.name) => c.id = d.id

-----------------------------------------------------------------------------
(* Record amounts.                                                         *)

\* The request has title, date and currency, a non-negative amount, and no
\* category or one of the caller's.
WellFormed(r) ==
    /\ r.body.title # Undefined /\ r.body.date # Undefined
    /\ r.body.currency \in {"USD", "KHR"}
    /\ r.body.amount # Undefined /\ r.body.amount >= 0
    /\ Falsy(r.body.category)
          \/ \E c \in categories : c.name = r.body.category /\ c.userId = r.userId

\* C23: after any sequence of createRecord and updateRecord calls every
\* stored record has a non-negative amount, and a createRecord with a valid
\* non-negative amount (0 included), title, date and currency is accepted.
C23_NonNegativeAmounts ==
    /\ \A r \in records : r.amount >= 0
    /\ (resp.op = "createRecord" /\ WellFormed(req)) => resp.status = 201

-----------------------------------------------------------------------------
(* Unknown category names.                                                 *)

\* The request names a category that is not one of the caller's.
Unresolvable(r) ==
    /\ ~Falsy(r.body.category)
    /\ ~\E c \in categories : c.name = r.body.category /\ c.userId = r.userId

\* The request gets as far as the category: a creation has its required
\* fields, an update targets a record of the caller.
ReachesCategory(r) ==
    \/ /\ r.op = "createRecord"
       /\ r.body.title # Undefined /\ r.body.date # Undefined
       /\ r.body.currency # Missing /\ r.body.amount # Undefined
    \/ /\ r.op = "updateRecord"
       /\ \E x \in records : x.id = r.id /\ x.userId = r.userId

Echoes(error, name) == \E i \in 1..Len(error) : error[i] = name

\* C24: createRecord and updateRecord called with a category name that is
\* not a category of the caller answer 400 with the attempted name in the
\* message, and leave the record store unchanged.
C24_UnknownCategoryRejected ==
    [][ (req'.op \in {"createRecord", "updateRecord"} /\ resp'.op = req'.op
            /\ ReachesCategory(req') /\ Unresolvable(req'))
          => /\ resp'.status = 400
             /\ Echoes(resp'.error, req'.body.category)
             /\ records' = records ]_vars

-----------------------------------------------------------------------------
(* Ownership of records.                                                   *)

ById == {"updateRecord", "deleteRecord", "findRecordById"}

\* C25: updateRecord, deleteRecord and findRecordById answer 404 for an id
\* that does not exist and 403 for a record of another user, and leave the
\* records as they are in both cases; a record is modified or deleted only
\* by a request of its owner.
C25_OwnerOnly ==
    [][ /\ (req'.op \in ById /\ resp'.op = req'.op) =>
              LET target == { x \in records : x.id = req'.id }
              IN  /\ target = {} => (resp'.status = 404 /\ records' = records)
                  /\ \A x \in target :
                        x.userId # req'.userId => (resp'.status = 403 /\ records' = records)
        /\ \A r \in records : r \notin records' => req'.userId = r.userId ]_vars

\* User 2 asked to delete record 1 of user 1 and was answered 403; the
\* record is still there.
C25_Witness ==
    /\ resp.op = "deleteRecord"
    /\ resp.status = 403
    /\ req.userId = 2
    /\ \E x \in records : x.id = req.id /\ x.userId = 1

-----------------------------------------------------------------------------
(* The read operations.                                                    *)

Reads == {"getAllRecords", "getMonthlySummary", "getRecentAverage", "getTop5Expenses"}

\* C26: getAllRecords, getMonthlySummary, getRecentAverage and
\* getTop5Expenses leave every stored record and category as it is: no
\* converted or aggregated value is written back.
C26_ReadOnly ==
    [][ (req'.op \in Reads /\ resp'.op = req'.op)
          => (records' = records /\ categories' = categories) ]_vars

\* A ranking in KHR was answered with a converted amount, and the ranked
\* USD record is still stored in USD.
C26_Witness ==
    /\ resp.op = "getTop5Expenses"
    /\ resp.status = 200
    /\ resp.displayCurrency = "KHR"
    /\ \E i \in 1..Len(resp.top5Expenses) :
          /\ resp.top5Expenses[i].originalCurrency = "USD"
          /\ \E r \in records : r.id = resp.top5Expenses[i].id /\ r.currency = "USD"

-----------------------------------------------------------------------------
(* The category breakdown of a month.                                      *)

RECURSIVE SumSeq(_)
SumSeq(xs) == IF Len(xs) = 0 THEN 0 ELSE Head(xs) + SumSeq(Tail(xs))

Distance(a, b) == IF a < b THEN b - a ELSE a - b

\* Half a cent, in thousandths: what rounding to cents changes a figure by.
HalfCent == 5

\* C27: the category breakdown of a monthly summary partitions the month's
\* records.  The entries have different categories and each counts the
\* month's records of its category, so that the counts add up to
\* summary.recordCount; the records without a category are in one entry
\* named Uncategorized with color #808080; and the entries' totalUSD and
\* totalKHR add up to totalExpenses.USD and totalExpenses.KHR but for the
\* rounding to cents of each of the figures.
C27_BreakdownPartitions ==
    MonthlyAnswered =>
        LET b    == resp.categoryBreakdown
            n    == Len(b)
            rows == MonthRows(dbq.where, dbq.currency)
        IN  /\ SumSeq([ i \in 1..n |-> b[i].recordCount ]) = resp.summary.recordCount
            /\ resp.summary.recordCount = Cardinality(rows)
            /\ \A i \in 1..n, j \in 1..n : b[i].categoryId = b[j].categoryId => i = j
            /\ \A i \in 1..n :
                  /\ b[i].recordCount > 0
                  /\ b[i].recordCount =
                        Cardinality({ r \in rows : CategoryIdOf(r) = b[i].categoryId })
                  /\ b[i].categoryId = Null =>
                        (b[i].categoryName = "Uncategorized" /\ b[i].categoryColor = "#808080")
            /\ Distance(SumSeq([ i \in 1..n |-> b[i].totalUSD ]), resp.summary.totalExpenses.USD)
                  <= (n + 1) * HalfCent
            /\ Distance(SumSeq([ i \in 1..n |-> b[i].totalKHR ]), resp.summary.totalExpenses.KHR)
                  <= (n + 1) * HalfCent

\* April 2024 with 0.004 USD in each of two categories and 584 KHR without
\* one: three entries, whose USD totals of 0.00 add up to a cent less than
\* the month's 0.01.
C27_Witness ==
    /\ MonthlyAnswered
    /\ Len(resp.categoryBreakdown) = 3
    /\ \E i \in 1..3 : resp.categoryBreakdown[i].categoryId = Null
    /\ resp.summary.totalExpenses.USD = 10
    /\ \A i \in 1..3 : resp.categoryBreakdown[i].totalUSD = 0

-----------------------------------------------------------------------------
(* The listing's two queries.                                              *)

Max2(a, b) == IF a > b THEN a ELSE b

\* C28: in a getAllRecords response the page holds no more rows than
\* totalItems, page and pageSize allow, also when another request creates
\* or deletes a matching record between the count and the findAll query.
C28_PageWithinTotal ==
    (resp.op = "getAllRecords" /\ resp.status = 200)
        => Len(resp.data) <=
             Max2(0, Min2(resp.meta.pageSize,
                          resp.meta.totalItems - (resp.meta.page - 1) * resp.meta.pageSize))

-----------------------------------------------------------------------------
(* Password-reset tokens.                                                  *)

ResetDone(r) == r.op = "resetPassword" /\ r.status = 200

\* C29: a password-reset token is usable at most once and only within one
\* hour of its issue.  A reset succeeds only with a token that was issued
\* less than an hour ago, that no reset has succeeded with before, and
\* that is the newest one issued to its user; a rejected reset leaves the
\* user table, passwords and tokens, as it was.
C29_ResetToken ==
    [][ (resp.op = "idle" /\ resp'.op = "resetPassword") =>
          IF ResetDone(resp')
            THEN /\ req'.body.token \notin redeemed
                 /\ \E m \in mail :
                       /\ m.token = req'.body.token
                       /\ clock < m.at + HourMs
                       /\ \A n \in mail : n.userId = m.userId => n.token <= m.token
                       /\ \E u \in users' :
                             /\ u.id = m.userId
                             /\ u.password = Hash(req'.body.newPassword)
                             /\ u.resetPasswordToken = Null
            ELSE users' = users ]_vars

\* A reset with a token that an earlier reset succeeded with was rejected.
C29_Witness ==
    /\ resp.op = "resetPassword"
    /\ resp.status = 400
    /\ req.body.token \in redeemed
    /\ req.body.newPassword = "secret9"

\* A reset with an issued, unused token was rejected after its hour.
C29_WitnessExpired ==
    /\ resp.op = "resetPassword"
    /\ resp.status = 400
    /\ \E u \in users : u.resetPasswordToken = req.body.token /\ u.resetPasswordExpires <= clock

-----------------------------------------------------------------------------
(* Account deletion.                                                       *)

\* C30: a successful deleteAccount of user u leaves no record, category or
\* user row of u and leaves the rows of every other user as they are; when
\* the user does not exist the call answers 404 and deletes nothing.
C30_DeleteAccount ==
    [][ (resp.op = "idle" /\ resp'.op = "deleteAccount") =>
          LET u == req'.userId
          IN  IF \E x \in users : x.id = u
                THEN /\ resp'.status = 200
                     /\ records' = { r \in records : r.userId # u }
                     /\ categories' = { c \in categories : c.userId # u }
                     /\ users' = { x \in users : x.id # u }
                ELSE /\ resp'.status = 404
                     /\ UNCHANGED <<records, categories, users>> ]_vars

\* User 1 is gone with the records and categories, user 2 has everything.
C30_Witness ==
    /\ resp.op = "deleteAccount"
    /\ resp.status = 200
    /\ req.userId = 1
    /\ { r.id : r \in records } = {5}
    /\ { c.id : c \in categories } = {3}
    /\ { x.id : x \in users } = {2}
====
